---- MODULE Spec2Model ----
(***************************************************************************)
(* Model of the item registry and rule-execution engine of packing-box:    *)
(*   - dict2 / Modifier (callable items wrapping the expression evaluator) *)
(*   - Modifiers (registry of modifiers and the alteration pipeline)       *)
(*   - MetaBase / MetaItem source properties (registry reset on a change   *)
(*     of the source path)                                                 *)
(* Python values are encoded as follows: an optional value is a sequence   *)
(* of length 0 (None) or 1; an ordered dict is a sequence of records       *)
(* carrying their key in the field `name`.                                 *)
(***************************************************************************)
EXTENDS Integers, Sequences, FiniteSets, TLC

VARIABLES
    files,      \* content of the configuration sources: path -> YAML document
    source,     \* Modifiers.source
    registry,   \* Modifiers.registry: None, or format -> ordered dict of Modifier
    reads,      \* history: the paths opened by open(Modifiers.source)
    reused,     \* history: a call has found Modifiers.registry already built
    pc,         \* position of the current Modifiers(...) call
    exe,        \* argument exe: None, or the format of the executable
    select,     \* argument select (the caller's list, mutated in place)
    warn,       \* argument warn
    idx,        \* position in Modifiers.registry[exe.format].items()
    parser,     \* local variable parser of Modifiers.__init__
    applied,    \* the Modifiers list itself: names of the applied modifiers
    invoked,    \* history: one record per call modifier(d, **kw)
    warned,     \* history: names logged by "Modifier '%s' does not exist"
    parses,     \* history: number of calls of lief.parse in this run
    builds,     \* history: parser states on which build() was called
    evals,      \* history: number of calls of dict2.__call__ in this run
    err,        \* exception that ended the call ("" when none)
    select0,    \* history: argument select as given by the caller
    call,       \* arguments of a direct call of dict2.__call__
    outcome,    \* its outcome
    msource,    \* MetaBase class: attribute _source (None when not set)
    mregistry,  \* MetaBase class: attribute registry
    mloads,     \* history: paths loaded into mregistry since _source last changed
    isource,    \* MetaItem class: attribute _source (None when not set)
    iregistry,  \* MetaItem class: attribute registry (None when not set)
    iloads      \* history: paths loaded into iregistry since _source last changed

vars == <<files, source, registry, reads, reused, pc, exe, select, warn, idx, parser,
          applied, invoked, warned, parses, builds, evals, err, select0, call,
          outcome,
          msource, mregistry, mloads, isource, iregistry, iloads>>

runVars == <<pc, exe, select, warn, idx, parser, applied, invoked, warned,
             parses, builds, evals, err, select0>>

evalVars == <<call, outcome>>

metaVars == <<msource, mregistry, mloads, isource, iregistry, iloads>>

----------------------------------------------------------------------------
(* Bounds of the model *)

MaxItems == 2
MaxSelect == 2
MaxLoop == 2
MaxExprs == 2

----------------------------------------------------------------------------
(* Python values *)

NoneV == <<>>

Some(x) == <<x>>

IsNone(o) == o = <<>>

Get(o) == o[1]

PyNone == [tag |-> "None", id |-> 0]

PyRaw == [tag |-> "raw", id |-> 0]

PyObj(n) == [tag |-> "object", id |-> n]

SeqToSet(s) == {s[i] : i \in 1..Len(s)}

\* the value of an expression, computed once
Only(S) == CHOOSE v \in S : TRUE

SeqsUpTo(S, n) == UNION {[1..k -> S] : k \in 0..n}

----------------------------------------------------------------------------
(* Executable formats (pbox.helpers.formats) *)

FORMAT_KEYS == <<"All", "ELF", "PE">>

FORMATS == [All |-> <<"ELF", "PE">>, ELF |-> <<"ELF64">>, PE |-> <<"PE32", "PE64">>]

\* the formats of the sequence fs, each class replaced by its members
RECURSIVE expand_once(_)
expand_once(fs) ==
    IF fs = <<>> THEN <<>>
    ELSE (IF Head(fs) \in DOMAIN FORMATS THEN FORMATS[Head(fs)] ELSE <<Head(fs)>>)
         \o expand_once(Tail(fs))

\* the elements of s in order, each kept once
Unique(s) ==
    Only({[k \in 1..Cardinality(first) |->
              s[CHOOSE i \in first : Cardinality({j \in first : j < i}) = k - 1]] :
          first \in {{i \in 1..Len(s) : \A j \in 1..(i - 1) : s[j] # s[i]}}})

\* 2-depth expansion of a format or class of formats
expand_formats(f) == Unique(expand_once(expand_once(<<f>>)))

----------------------------------------------------------------------------
(* Configuration documents.                                                *)
(* A YAML document is [defaults, entries]; entries is the ordered mapping  *)
(* name -> params. A params mapping holds the optional keys apply, loop    *)
(* and result. The value of result is absent, a string (one expression)    *)
(* or a mapping from category keys to expressions. An expression is a      *)
(* record naming the entry and key it was written under, and telling       *)
(* whether its syntax tree holds a node outside the white list.            *)

Paths == {"p1", "p2"}

Names == <<"A", "B", "C", "D">>

Keys == {"All", "ELF", "PE", "ELF64", "PE32", "PE64"}

Expr(n, k, bad) == [owner |-> n, key |-> k, forbidden |-> bad]

NoResult == [kind |-> "absent", keys |-> {}, forbidden |-> FALSE]

StrResult(bad) == [kind |-> "str", keys |-> {}, forbidden |-> bad]

DictResult(ks, bad) == [kind |-> "dict", keys |-> ks, forbidden |-> bad]

\* `result: ""` (or an empty mapping): declared, and falsy
EmptyResult == [kind |-> "empty", keys |-> {}, forbidden |-> FALSE]

Params(a, l, r) == [apply |-> a, loop |-> l, result |-> r]

NoDefaults == Params(NoneV, NoneV, NoResult)

\* dict.setdefault(k, v) for every item of the defaults
SetDefaults(params, data_all) ==
    [apply  |-> IF IsNone(params.apply) THEN data_all.apply ELSE params.apply,
     loop   |-> IF IsNone(params.loop) THEN data_all.loop ELSE params.loop,
     result |-> IF params.result.kind = "absent" THEN data_all.result
                ELSE params.result]

\* expr = r.get(c) if isinstance(r, dict) else str(r); None when there is none
ResultExpr(name, r, c) ==
    CASE r.kind = "dict" -> IF c \in r.keys THEN Some(Expr(name, c, r.forbidden))
                            ELSE NoneV
      [] r.kind = "str" -> Some(Expr(name, "*", r.forbidden))
      [] OTHER -> NoneV

----------------------------------------------------------------------------
(* dict2.__init__ and Modifier._fields *)

Modifier_fields == [apply |-> TRUE, loop |-> NoneV]

\* dict2.__init__(idict, **kwargs): the exception raised, "" when the object is
\* constructed. res tells whether idict or kwargs hold a key `result` (given)
\* and whether its value is empty. The defaults are set before the update
\* from idict and kwargs, when self holds no name yet: result is then
\* UNDEF_RESULT unless it is given.
dict2_init(res) == IF ~res.given THEN "ValueError" ELSE ""

Modifier(params, name, expr) ==
    [name   |-> name,
     result |-> <<expr>>,
     islist |-> FALSE,
     apply  |-> IF IsNone(params.apply) THEN Modifier_fields.apply
                ELSE Get(params.apply),
     loop   |-> IF IsNone(params.loop) THEN Modifier_fields.loop ELSE params.loop,
     parameters |-> {}]

----------------------------------------------------------------------------
(* Modifiers.__init__: construction of the registry *)

\* registry[c2][m.name] = m on an ordered dict: a known key keeps its place
DictSet(items, m) ==
    IF \E i \in 1..Len(items) : items[i].name = m.name
    THEN [i \in 1..Len(items) |-> IF items[i].name = m.name THEN m ELSE items[i]]
    ELSE Append(items, m)

\* Modifiers.registry.setdefault(c2, {}) ; Modifiers.registry[c2][m.name] = m
RegistrySet(reg, c2, m) ==
    IF c2 \in DOMAIN reg THEN [reg EXCEPT ![c2] = DictSet(@, m)]
    ELSE reg @@ (c2 :> <<m>>)

\* for c2 in expand_formats(c): ...
RECURSIVE RegisterFormats(_, _, _)
RegisterFormats(reg, cs, m) ==
    IF cs = <<>> THEN reg
    ELSE Only({RegisterFormats(r, Tail(cs), m) :
               r \in {RegistrySet(reg, Head(cs), m)}})

\* the categories in the order the nested loops visit them
CategoryOrder == expand_formats("All") \o Tail(FORMAT_KEYS) \o <<"All">>

\* expr = ... ; if expr: m = Modifier(params, name=name, parent=self, result=expr) ...
RegisterCategory(reg, c, name, params) ==
    Only({IF IsNone(expr) THEN reg
          ELSE Only({RegisterFormats(reg, expand_formats(c), m) :
                     m \in {Modifier(params, name, Get(expr))}}) :
          expr \in {ResultExpr(name, params.result, c)}})

\* for clist in [...]: for c in clist: ...
RECURSIVE RegisterEntry(_, _, _, _)
RegisterEntry(reg, cs, name, params) ==
    IF cs = <<>> THEN reg
    ELSE Only({RegisterEntry(r, Tail(cs), name, params) :
               r \in {RegisterCategory(reg, Head(cs), name, params)}})

\* for name, params in modifiers.items(): ...
RECURSIVE RegisterEntries(_, _, _)
RegisterEntries(reg, entries, data_all) ==
    IF entries = <<>> THEN reg
    ELSE Only({RegisterEntries(r, Tail(entries), data_all) :
               r \in {Only({RegisterEntry(reg, CategoryOrder, Head(entries).name, ps) :
                            ps \in {SetDefaults(Head(entries).params, data_all)}})}})

\* an entry whose value is null (`name:` alone): params is None, and
\* params.setdefault / params.pop raise AttributeError
Malformed(e) == "params" \notin DOMAIN e

\* the exception that ends the construction, "" when it completes
BuildError(doc) ==
    IF \E i \in 1..Len(doc.entries) : Malformed(doc.entries[i])
    THEN "AttributeError" ELSE ""

\* the entries the loop registers before it ends
BuiltEntries(doc) ==
    IF BuildError(doc) = "" THEN doc.entries
    ELSE SubSeq(doc.entries, 1,
                (CHOOSE i \in 1..Len(doc.entries) :
                     /\ Malformed(doc.entries[i])
                     /\ \A j \in 1..(i - 1) : ~Malformed(doc.entries[j])) - 1)

\* Modifiers.registry = {} followed by the loop over the entries: the registry
\* as the construction leaves it, whether it completes or not
BuildRegistry(doc) == RegisterEntries(<<>>, BuiltEntries(doc), doc.defaults)

\* the test as it would be if the registry were built at every call
NeedsBuild_always(reg) == TRUE

\* if Modifiers.registry is None
NeedsBuild(reg) == IsNone(reg)

ItemNames(items) == [i \in 1..Len(items) |-> items[i].name]

----------------------------------------------------------------------------
(* dict2.__call__: evaluation of the result expression(s).                 *)
(* What an allowed expression does depends on the data bound in the        *)
(* context; this is an input of each evaluation (a behaviour):             *)
(*   NameError        a name of the expression is not bound                *)
(*   Error            the evaluation raises another exception              *)
(*   Value            the expression evaluates to a value, not callable    *)
(*   CallRaises       it evaluates to a callable that raises when called   *)
(*   CallReturnsNone  it evaluates to a callable that returns None         *)
(*   CallReturns      it evaluates to a callable that returns an object    *)

Behaviours == {"NameError", "Error", "Value", "CallRaises", "CallReturnsNone",
               "CallReturns"}

PyFunc == [tag |-> "function", id |-> 0]

PyTuple == [tag |-> "tuple", id |-> 0]

\* eval2 with whitelist_nodes: the syntax tree is checked before anything is
\* evaluated, so a node outside the white list raises whatever the data
eval2(expr, beh) == IF expr.forbidden THEN "ForbiddenNodeError" ELSE beh

Raised(e, logs) == [kind |-> "raise", exc |-> e, val |-> PyNone, log |-> logs]

Returned(v, logs) == [kind |-> "return", exc |-> "", val |-> v, log |-> logs]

\* _exec as it would be if the handler of ForbiddenNodeError did not re-raise:
\* the error would be handled like a failed call of the result
dict2_exec_noraise(expr, beh, kwargs, silent, fresh) ==
    IF eval2(expr, beh) = "ForbiddenNodeError"
    THEN IF silent THEN Returned(PyNone, <<"warning", "error">>)
         ELSE Raised("NameError", <<"warning", "error">>)
    ELSE CASE beh = "NameError" -> Raised("NameError", <<>>)
           [] beh = "Error" -> Raised("Exception", <<>>)
           [] beh = "CallReturns" /\ kwargs # {} -> Returned(PyObj(fresh), <<>>)
           [] beh = "CallReturnsNone" /\ kwargs # {} -> Returned(PyNone, <<>>)
           [] OTHER -> IF kwargs = {} THEN Returned(PyRaw, <<>>)
                       ELSE IF silent THEN Returned(PyNone, <<>>)
                       ELSE Raised("NameError", <<>>)

\* _exec(expr), with kwargs already updated with self.parameters
dict2_exec(expr, beh, kwargs, silent, fresh) ==
    LET r == eval2(expr, beh)
    IN  CASE r = "ForbiddenNodeError" ->
                 Raised("ForbiddenNodeError", <<"warning", "error">>)
          [] r = "NameError" ->
                 Raised("NameError", IF silent THEN <<>> ELSE <<"debug">>)
          [] r = "Error" ->
                 Raised("Exception",
                        IF silent THEN <<>> ELSE <<"warning", "exception", "debug">>)
          [] OTHER ->
                 IF kwargs = {}
                 THEN Returned(IF r = "Value" THEN PyRaw ELSE PyFunc, <<>>)
                 ELSE CASE r = "CallReturns" -> Returned(PyObj(fresh), <<>>)
                        [] r = "CallReturnsNone" -> Returned(PyNone, <<>>)
                        [] OTHER ->
                           \* r(**kwargs) raised: the handler logs unless silent,
                           \* and its message reads `result`, a name that is not
                           \* bound in _exec; when silent the function ends
                           \* without a return statement
                           IF silent THEN Returned(PyNone, <<>>)
                           ELSE Raised("NameError", <<>>)

\* the step as it would be if the results were collected in reverse order
exec_step_reversed(acc, o) ==
    [kind  |-> o.kind,
     exc   |-> o.exc,
     retv  |-> IF o.kind = "return" THEN <<o.val>> \o acc.retv ELSE acc.retv,
     evald |-> acc.evald + 1,
     log   |-> acc.log \o o.log]

\* one more expression evaluated with outcome o
exec_step(acc, o) ==
    [kind  |-> o.kind,
     exc   |-> o.exc,
     retv  |-> IF o.kind = "return" THEN Append(acc.retv, o.val) ELSE acc.retv,
     evald |-> acc.evald + 1,
     log   |-> acc.log \o o.log]

\* retv = [_exec(result) for result in ...]: stops at the first exception
RECURSIVE dict2_exec_all(_, _, _, _, _, _)
dict2_exec_all(exprs, behs, kwargs, silent, fresh, acc) ==
    IF exprs = <<>> THEN acc
    ELSE Only({IF a.kind = "raise" THEN a
               ELSE dict2_exec_all(Tail(exprs), Tail(behs), kwargs, silent,
                                   fresh + 1, a) :
               a \in {exec_step(acc, o) :
                      o \in {dict2_exec(Head(exprs), Head(behs), kwargs, silent,
                                        fresh)}}})

\* dict2.__call__(self, data, silent, **kwargs); multi is the class attribute
\* _multi_expr, behs gives the behaviour of each expression of self.result
dict2_call(self, multi, behs, silent, kwargs, fresh) ==
    IF ~multi /\ self.islist
    THEN [kind |-> "raise", exc |-> "ValueError", val |-> PyNone, retv |-> <<>>,
          evald |-> 0, log |-> <<>>]
    ELSE Only({[kind  |-> o.kind,
                exc   |-> o.exc,
                val   |-> IF o.kind = "raise" THEN PyNone
                          ELSE IF Len(o.retv) = 1 THEN o.retv[1] ELSE PyTuple,
                retv  |-> o.retv,
                evald |-> o.evald,
                log   |-> o.log] :
               o \in {dict2_exec_all(self.result, behs, kwargs \cup self.parameters,
                                     silent, fresh,
                                     [kind |-> "return", exc |-> "", retv |-> <<>>,
                                      evald |-> 0, log |-> <<>>])}})

\* the names d binds before d.update(data): a context is the set of the names
\* it binds
BaseContext == {"choice", "apply", "len", "abs"}

\* the pop as it would be if the binding were left in the context
PopBuiltins_keep(d) == d

\* d.pop('__builtins__', None)
PopBuiltins(d) == d \ {"__builtins__"}

\* the context handed to eval2 for each of the first n expressions; ins[i]
\* tells whether the i-th evaluation leaves a binding of __builtins__ in d
RECURSIVE EvalContexts(_, _, _, _)
EvalContexts(d, ins, n, acc) ==
    IF n = 0 \/ ins = <<>> THEN acc
    ELSE Only({EvalContexts(ctx \cup (IF Head(ins) THEN {"__builtins__"} ELSE {}),
                            Tail(ins), n - 1, Append(acc, ctx)) :
               ctx \in {PopBuiltins(d)}})

\* d.update(data), then the contexts of the evald evaluations of the call
dict2_contexts(data, ins, evald) ==
    EvalContexts(BaseContext \cup data, ins, evald, <<>>)

----------------------------------------------------------------------------
(* Modifier.__call__(self, d, parser=None, **kw) *)

\* for _ in range(self.loop): parser = super().__call__(d, parser=parser, **kw)
RECURSIVE Modifier_loop(_, _, _, _, _, _, _)
Modifier_loop(self, n, behs, pin, kw, fresh, acc) ==
    IF n <= 0 THEN [kind |-> "return", exc |-> "", val |-> pin, calls |-> acc]
    ELSE Only({IF o.kind = "raise"
               THEN [kind |-> "raise", exc |-> o.exc, val |-> PyNone,
                     calls |-> Append(acc, [pin |-> pin, kind |-> o.kind,
                                            val |-> o.val])]
               ELSE Only({Modifier_loop(self, n - 1, Tail(behs), v, kw, fresh, a) :
                          v \in {o.val},
                          a \in {Append(acc, [pin |-> pin, kind |-> o.kind,
                                              val |-> o.val])}}) :
               o \in {dict2_call(self, FALSE, Head(behs), FALSE, kw \cup {"parser"},
                                 fresh + Len(acc) + 1)}})

\* the number as it would be if the loop count were ignored
Modifier_rounds_once(self) == 1

\* number of evaluations the call attempts
Modifier_rounds(self) == IF IsNone(self.loop) THEN 1 ELSE Get(self.loop)

Modifier_call(self, behs, pin, kw, fresh) ==
    Modifier_loop(self, Modifier_rounds(self), behs, pin, kw, fresh, <<>>)

----------------------------------------------------------------------------
(* Modifiers.__init__(self, exe, select=None, warn=False) *)

\* no call of Modifiers is in progress
Idle == pc = "idle"

\* the registry after the statement `if Modifiers.registry is None: ...`
LoadedRegistry ==
    IF NeedsBuild(registry) THEN Some(BuildRegistry(files[source])) ELSE registry

LoadedReads == IF NeedsBuild(registry) THEN Append(reads, source) ELSE reads

\* the exception raised by that statement, "" when there is none
LoadError == IF NeedsBuild(registry) THEN BuildError(files[source]) ELSE ""

\* list.remove(x): removes the first occurrence
RECURSIVE RemoveFirst(_, _)
RemoveFirst(s, x) ==
    IF s = <<>> THEN <<>>
    ELSE IF Head(s) = x THEN Tail(s)
    ELSE <<Head(s)>> \o RemoveFirst(Tail(s), x)

\* name not in Modifiers.registry[exe.format]
Unknown(name, items) == name \notin SeqToSet(ItemNames(items))

\* the check as it would be if bad names were dropped whatever warn
RECURSIVE CheckSelect_lenient(_, _, _, _, _)
CheckSelect_lenient(names, e, reg, w, acc) ==
    IF names = <<>> THEN acc
    ELSE IF IsNone(e) THEN [acc EXCEPT !.err = "AttributeError"]
    ELSE IF Get(e) \notin DOMAIN reg THEN [acc EXCEPT !.err = "KeyError"]
    ELSE IF ~Unknown(Head(names), reg[Get(e)])
         THEN CheckSelect_lenient(Tail(names), e, reg, w, acc)
    ELSE CheckSelect_lenient(Tail(names), e, reg, w,
                             [acc EXCEPT !.warned = Append(@, Head(names)),
                                         !.select = RemoveFirst(@, Head(names))])

\* for name in (select or [])[:]: ... ; acc is [err, select, warned]
RECURSIVE CheckSelect(_, _, _, _, _)
CheckSelect(names, e, reg, w, acc) ==
    IF names = <<>> THEN acc
    ELSE IF IsNone(e) THEN [acc EXCEPT !.err = "AttributeError"]
    ELSE IF Get(e) \notin DOMAIN reg THEN [acc EXCEPT !.err = "KeyError"]
    ELSE IF ~Unknown(Head(names), reg[Get(e)])
         THEN CheckSelect(Tail(names), e, reg, w, acc)
    ELSE IF w
         THEN CheckSelect(Tail(names), e, reg, w,
                          [acc EXCEPT !.warned = Append(@, Head(names)),
                                      !.select = RemoveFirst(@, Head(names))])
    ELSE [acc EXCEPT !.err = "ValueError"]

SelectList(sel) == IF IsNone(sel) THEN <<>> ELSE Get(sel)

\* the exception that ends the call before the loop over the items, if any
StartError(chk, e, reg) ==
    IF chk.err = "" /\ ~IsNone(e) /\ Get(e) \notin DOMAIN reg THEN "KeyError"
    ELSE chk.err

Start(e, sel, w) ==
    /\ Idle
    /\ \E reg \in {LoadedRegistry} :
         \E chk \in {CheckSelect(SelectList(sel), e, Get(reg), w,
                                 [err |-> "", select |-> SelectList(sel),
                                  warned |-> <<>>])} :
           \E error \in {IF LoadError # "" THEN LoadError
                         ELSE StartError(chk, e, Get(reg))} :
             /\ registry' = reg
             /\ reads' = LoadedReads
             /\ reused' = (reused \/ ~NeedsBuild(registry))
             /\ exe' = e
             /\ warn' = w
             /\ select0' = sel
             /\ select' = IF IsNone(sel) \/ LoadError # "" THEN sel
                          ELSE Some(chk.select)
             /\ warned' = IF LoadError # "" THEN <<>> ELSE chk.warned
             /\ err' = error
             /\ pc' = IF error # "" THEN "raised"
                      ELSE IF IsNone(e) THEN "done" ELSE "loop"
    /\ idx' = 1
    /\ parser' = PyNone
    /\ applied' = <<>>
    /\ invoked' = <<>>
    /\ parses' = 0
    /\ builds' = <<>>
    /\ evals' = 0
    /\ UNCHANGED <<files, source, evalVars, metaVars>>

\* Modifiers.registry[exe.format].items()
Items == Get(registry)[Get(exe)]

\* the test as it would be if the apply flag were honoured under a selection too
Skipped_apply(sel, m) ==
    \/ ~m.apply
    \/ ~IsNone(sel) /\ m.name \notin SeqToSet(Get(sel))

\* the test as it would be if an empty selection counted as no selection
Skipped_falsy(sel, m) ==
    \/ SelectList(sel) = <<>> /\ ~m.apply
    \/ SelectList(sel) # <<>> /\ m.name \notin SeqToSet(Get(sel))

\* if select is None and not modifier.apply or select is not None and name not in select
Skipped(sel, m) ==
    \/ IsNone(sel) /\ ~m.apply
    \/ ~IsNone(sel) /\ m.name \notin SeqToSet(Get(sel))

\* except Exception as e
Caught(exc) ==
    exc \in {"ForbiddenNodeError", "NameError", "Exception", "ValueError"}

Skip ==
    /\ pc = "loop"
    /\ idx <= Len(Items)
    /\ Skipped(select, Items[idx])
    /\ idx' = idx + 1
    /\ UNCHANGED <<files, source, registry, reads, reused, pc, exe, select, warn, parser,
                   applied, invoked, warned, parses, builds, evals, err, select0,
                   evalVars, metaVars>>

\* if parser is None: tmp_parser = lief.parse(str(exe.destination))
NeedsParse(p) == p = PyNone

\* the assignment as it would be if a failed item reset the parser
NextParser_reset(ok, val, p) == val

\* parser = modifier(d, **kw): assigned only when the call returns
NextParser(ok, val, p) == IF ok THEN val ELSE p

\* the list as it would be if the name were appended whatever the call did
NextApplied_always(ok, name, l) == Append(l, name)

\* self.append(name): reached only when the call returns
NextApplied(ok, name, l) == IF ok THEN Append(l, name) ELSE l

Invoke ==
    /\ pc = "loop"
    /\ idx <= Len(Items)
    /\ ~Skipped(select, Items[idx])
    /\ \E m \in {Items[idx]} :
         \E behs \in [1..Modifier_rounds(m) -> [1..Len(m.result) -> Behaviours]] :
           \E o \in {Modifier_call(m, behs, parser, {"executable"}, evals)} :
             \E ok \in {o.kind = "return"} :
                 /\ parses' = IF NeedsParse(parser) THEN parses + 1 ELSE parses
                 /\ parser' = NextParser(ok, o.val, parser)
                 /\ applied' = NextApplied(ok, m.name, applied)
                 /\ invoked' = Append(invoked, [name |-> m.name, pin |-> parser,
                                                kind |-> o.kind, exc |-> o.exc,
                                                val |-> o.val, calls |-> o.calls])
                 /\ evals' = evals + Len(o.calls)
                 /\ pc' = IF ok \/ Caught(o.exc) THEN "loop" ELSE "raised"
                 /\ err' = IF ok \/ Caught(o.exc) THEN err ELSE o.exc
    /\ idx' = idx + 1
    /\ UNCHANGED <<files, source, registry, reads, reused, exe, select, warn, warned,
                   builds, select0, evalVars, metaVars>>

\* if parser is not None: parser.build()
Finish ==
    /\ pc = "loop"
    /\ idx > Len(Items)
    /\ builds' = IF parser # PyNone THEN Append(builds, parser) ELSE builds
    /\ pc' = "done"
    /\ UNCHANGED <<files, source, registry, reads, reused, exe, select, warn, idx, parser,
                   applied, invoked, warned, parses, evals, err, select0,
                   evalVars, metaVars>>

\* the call has returned or raised: the caller goes on
Return ==
    /\ pc \in {"done", "raised"}
    /\ pc' = "idle"
    /\ exe' = NoneV
    /\ select' = NoneV
    /\ warn' = FALSE
    /\ idx' = 1
    /\ parser' = PyNone
    /\ applied' = <<>>
    /\ invoked' = <<>>
    /\ warned' = <<>>
    /\ parses' = 0
    /\ builds' = <<>>
    /\ evals' = 0
    /\ err' = ""
    /\ select0' = NoneV
    /\ UNCHANGED <<files, source, registry, reads, reused, evalVars, metaVars>>

\* Modifiers.source = path: a plain class attribute
SetSource(path) ==
    /\ Idle
    /\ source' = path
    /\ UNCHANGED <<files, registry, reads, reused, runVars, evalVars, metaVars>>

\* the value returned by Modifiers.names(format) once the registry is there
names_value(reg, format) ==
    IF \E c \in SeqToSet(expand_formats(format)) : c \notin DOMAIN reg
    THEN [kind |-> "raise", exc |-> "KeyError", val |-> {}]
    ELSE [kind |-> "return", exc |-> "",
          val |-> UNION {SeqToSet(ItemNames(reg[c])) :
                         c \in SeqToSet(expand_formats(format))}]

\* Modifiers.names(format): Modifiers(None) forces the registry initialization
NamesCall(format) ==
    /\ Idle
    /\ registry' = LoadedRegistry
    /\ reads' = LoadedReads
    /\ reused' = (reused \/ ~NeedsBuild(registry))
    /\ UNCHANGED <<files, source, runVars, evalVars, metaVars>>

----------------------------------------------------------------------------
(* A direct call of dict2.__call__ *)

EvalCall ==
    /\ ~IsNone(call)
    /\ IsNone(outcome)
    /\ \E c \in {Get(call)} :
         \E o \in {dict2_call(c.self, c.multi, c.behs, c.silent, c.kwargs, 0)} :
           outcome' = Some([kind |-> o.kind, exc |-> o.exc, val |-> o.val,
                            retv |-> o.retv, evald |-> o.evald, log |-> o.log,
                            ctxs |-> dict2_contexts(c.data, c.ins, o.evald)])
    /\ UNCHANGED <<files, source, registry, reads, reused, runVars, call, metaVars>>

\* a direct construction dict2(idict, **kwargs)
InitCall ==
    /\ ~IsNone(call)
    /\ IsNone(outcome)
    /\ outcome' = Some([err |-> dict2_init(Get(call))])
    /\ UNCHANGED <<files, source, registry, reads, reused, runVars, call, metaVars>>

\* a direct call of Modifier.__call__(d, parser=pin, executable=exe)
LoopCall ==
    /\ ~IsNone(call)
    /\ IsNone(outcome)
    /\ \E c \in {Get(call)} :
         outcome' = Some(Modifier_call(c.self, c.behs, c.pin, {"executable"}, 0))
    /\ UNCHANGED <<files, source, registry, reads, reused, runVars, call, metaVars>>

----------------------------------------------------------------------------
(* load_yaml_config(cfg, no_defaults=(), parse_defaults=True)              *)
(* A mapping is a function from its keys to values; a value is a record of *)
(* its type t and of what the loader reads of it: src tells scalars apart, *)
(* b is the truth value of a boolean, sub the keys of a plain mapping, and *)
(* a mapping {match: [...], value: v} holds its patterns and v (isbool, b, *)
(* src). A pattern is the set of the names re.search finds it in. A list,  *)
(* tuple or set holds its elements (values) in elems, in iteration order.  *)

MaxPatterns == 2

MaxElems == 2

EmptyDict == <<>>

Scalar(src) ==
    [t |-> "scalar", src |-> src, b |-> FALSE, sub |-> {}, match |-> <<>>,
     isbool |-> FALSE, elems |-> <<>>]

BoolV(b) ==
    [t |-> "bool", src |-> "", b |-> b, sub |-> {}, match |-> <<>>,
     isbool |-> TRUE, elems |-> <<>>]

DictV(sub) ==
    [t |-> "dict", src |-> "", b |-> FALSE, sub |-> sub, match |-> <<>>,
     isbool |-> FALSE, elems |-> <<>>]

MatchV(pats, isbool, b, src) ==
    [t |-> "match", src |-> src, b |-> b, sub |-> {"match", "value"},
     match |-> pats, isbool |-> isbool, elems |-> <<>>]

\* a list, tuple or set (t) of the values es
ListLike(t, es) ==
    [t |-> t, src |-> "", b |-> FALSE, sub |-> {}, match |-> <<>>,
     isbool |-> FALSE, elems |-> es]

\* isinstance(value, dict)
IsDict(v) == v.t \in {"dict", "match"}

\* isinstance(value, (list, set, tuple))
IsListLike(v) == v.t \in {"list", "set", "tuple"}

\* the order in which the keys of a mapping are visited
CfgKeys == <<"K", "J">>

\* dict.setdefault(k, v)
SetDefault(d, k, v) == IF k \in DOMAIN d THEN d ELSE d @@ (k :> v)

\* d1.update(d2)
DictUpdate(d1, d2) ==
    [k \in DOMAIN d1 \cup DOMAIN d2 |-> IF k \in DOMAIN d2 THEN d2[k] ELSE d1[k]]

\* for name2 in config.keys(): config[name2].setdefault(default, ...)
MatchOne(entries, k, val, pat) ==
    [i \in 1..Len(entries) |->
        [entries[i] EXCEPT !.params =
            IF val.isbool
            THEN SetDefault(@, k, BoolV(IF entries[i].name \in pat
                                        THEN val.b ELSE ~val.b))
            ELSE IF entries[i].name \in pat THEN SetDefault(@, k, Scalar(val.src))
            ELSE @]]

\* for pattern in value['match']: ...
RECURSIVE MatchAll(_, _, _, _)
MatchAll(entries, k, val, pats) ==
    IF pats = <<>> THEN entries
    ELSE Only({MatchAll(es, k, val, Tail(pats)) :
               es \in {MatchOne(entries, k, val, Head(pats))}})

\* the body of `for default, value in defaults.items()` for the i-th entry
ApplyDefault(entries, i, k, val) ==
    IF IsDict(val)
    THEN IF val.t = "match" THEN MatchAll(entries, k, val, val.match) ELSE entries
    ELSE [entries EXCEPT ![i].params = SetDefault(@, k, val)]

\* the test as it would be if no default name were forbidden
Forbidden_never(default, no_defaults) == FALSE

\* if default in no_defaults
Forbidden(default, no_defaults) == default \in no_defaults

\* for default, value in defaults.items(): ... ; acc is [err, entries]
RECURSIVE SetKeys(_, _, _, _, _)
SetKeys(acc, i, ks, defaults, no_defaults) ==
    IF ks = <<>> \/ acc.err # "" THEN acc
    ELSE IF Head(ks) \notin DOMAIN defaults
         THEN SetKeys(acc, i, Tail(ks), defaults, no_defaults)
    ELSE IF Forbidden(Head(ks), no_defaults) THEN [acc EXCEPT !.err = "ValueError"]
    ELSE Only({SetKeys(a, i, Tail(ks), defaults, no_defaults) :
               a \in {[acc EXCEPT !.entries =
                           ApplyDefault(@, i, Head(ks), defaults[Head(ks)])]}})

\* for params in [v for v in config.values()]: ...
RECURSIVE SetEntries(_, _, _, _)
SetEntries(acc, i, defaults, no_defaults) ==
    IF i > Len(acc.entries) \/ acc.err # "" THEN acc
    ELSE Only({SetEntries(a, i + 1, defaults, no_defaults) :
               a \in {SetKeys(acc, i, CfgKeys, defaults, no_defaults)}})

\* _set(config, defaults_): config is [defaults, entries]
set_(config, defaults_, no_defaults) ==
    SetEntries([err |-> "", entries |-> config.entries], 1,
               DictUpdate(defaults_, config.defaults), no_defaults)

\* for sv in v: if sv not in v1: v1.append(sv)
RECURSIVE ExtendNew(_, _)
ExtendNew(l1, l) ==
    IF l = <<>> THEN l1
    ELSE ExtendNew(IF Head(l) \in SeqToSet(l1) THEN l1 ELSE Append(l1, Head(l)),
                   Tail(l))

\* the branch `elif isinstance(v1, (list, set, tuple))`
MergeList(v1, v) ==
    [v1 EXCEPT !.elems = IF IsListLike(v) THEN ExtendNew(@, v.elems)
                         ELSE Append(@, v)]

\* v1.append(...) on a tuple or a set: AttributeError, raised before v1 changes
MergeError(v1, v) ==
    IF /\ v1.t \in {"set", "tuple"}
       /\ (IsListLike(v) => \E i \in 1..Len(v.elems) : v.elems[i] \notin SeqToSet(v1.elems))
    THEN "AttributeError" ELSE ""

\* elif not keep: config[k] = v
Replace(v1, v, keep) == IF keep THEN v1 ELSE v

\* _merge(config, k, v, keep) on two values held under the same key, when it
\* does not raise
MergeValue(v1, v, keep) ==
    IF IsDict(v1)
    THEN IF IsDict(v) THEN [v1 EXCEPT !.sub = @ \cup v.sub]
         ELSE Replace(v1, v, keep)
    ELSE IF IsListLike(v1) THEN MergeList(v1, v)
    ELSE Replace(v1, v, keep)

\* _merge(config, k, v, keep): the exception raised and config after the call
merge_call(config, k, v, keep) ==
    IF k \notin DOMAIN config THEN [err |-> "", config |-> config @@ (k :> v)]
    ELSE IF ~IsDict(config[k]) /\ MergeError(config[k], v) # ""
         THEN [err |-> MergeError(config[k], v), config |-> config]
    ELSE [err |-> "", config |-> [config EXCEPT ![k] = MergeValue(@, v, keep)]]

\* for sk, sv in v.items(): _merge(v1, sk, sv)
MergeParams(p1, p2) ==
    [k \in DOMAIN p1 \cup DOMAIN p2 |->
        IF k \notin DOMAIN p1 THEN p2[k]
        ELSE IF k \notin DOMAIN p2 THEN p1[k]
        ELSE MergeValue(p1[k], p2[k], FALSE)]

\* _merge(base, k, v) for an entry k with parameters v
merge_(base, e) ==
    IF \A i \in 1..Len(base) : base[i].name # e.name THEN Append(base, e)
    ELSE [i \in 1..Len(base) |->
             IF base[i].name = e.name
             THEN [base[i] EXCEPT !.params = MergeParams(@, e.params)]
             ELSE base[i]]

\* for k, v in config.items(): _merge(base, k, v)
RECURSIVE MergeEntries(_, _)
MergeEntries(base, entries) ==
    IF entries = <<>> THEN base
    ELSE Only({MergeEntries(b, Tail(entries)) : b \in {merge_(base, Head(entries))}})

\* for cfg in folder.listdir(...): _set(config, defaults_) ; _merge ...
RECURSIVE UpdateFiles(_, _, _, _)
UpdateFiles(acc, cfgs, defaults_, no_defaults) ==
    IF cfgs = <<>> \/ acc.err # "" THEN acc
    ELSE Only({IF r.err # "" THEN [acc EXCEPT !.err = r.err]
               ELSE Only({UpdateFiles(a, Tail(cfgs), defaults_, no_defaults) :
                          a \in {[acc EXCEPT !.entries = MergeEntries(@, r.entries)]}}) :
               r \in {set_(Head(cfgs), defaults_, no_defaults)}})

\* _update(base, folder, defaults): folder is [dflt, files, subs], dflt the
\* content of its defaults.yml (empty when there is none)
RECURSIVE update_(_, _, _, _)
RECURSIVE UpdateSubs(_, _, _, _)
update_(acc, folder, defaults, no_defaults) ==
    Only({Only({UpdateSubs(a, folder.subs, d, no_defaults) :
                a \in {UpdateFiles(acc, folder.files, d, no_defaults)}}) :
          d \in {DictUpdate(defaults, folder.dflt)}})

\* for cfg_folder in folder.listdir(lambda p: p.is_dir()): _update(...)
UpdateSubs(acc, subs, defaults_, no_defaults) ==
    IF subs = <<>> \/ acc.err # "" THEN acc
    ELSE Only({UpdateSubs(a, Tail(subs), defaults_, no_defaults) :
               a \in {update_(acc, Head(subs), defaults_, no_defaults)}})

\* for name, params in d.items(): yield name, params -- reached only when d
\* was computed without an exception
Yielded(r) == IF r.err # "" THEN [r EXCEPT !.entries = <<>>] ELSE r

\* the pairs yielded, or the exception raised at the first next()
load_yaml_config(cfg, no_defaults) ==
    Yielded(IF cfg.isdir
            THEN update_([err |-> "", entries |-> <<>>], cfg.folder, EmptyDict,
                         no_defaults)
            ELSE set_(cfg.file, EmptyDict, no_defaults))

\* a direct call _merge(config, k, v, keep)
MergeCall ==
    /\ ~IsNone(call)
    /\ IsNone(outcome)
    /\ \E c \in {Get(call)} :
         \E r \in {merge_call(c.config, c.k, c.v, c.keep)} :
           outcome' = Some([n |-> 1, err |-> r.err, config |-> r.config,
                            prev |-> c.config])
    /\ UNCHANGED <<files, source, registry, reads, reused, runVars, call, metaVars>>

\* the same call once more, on the configuration the first one left
MergeAgain ==
    /\ ~IsNone(call)
    /\ ~IsNone(outcome)
    /\ Get(outcome).n = 1
    /\ Get(outcome).err = ""
    /\ \E c \in {Get(call)} :
         \E r \in {merge_call(Get(outcome).config, c.k, c.v, c.keep)} :
           outcome' = Some([n |-> 2, err |-> r.err, config |-> r.config,
                            prev |-> Get(outcome).config])
    /\ UNCHANGED <<files, source, registry, reads, reused, runVars, call, metaVars>>

\* list(load_yaml_config(cfg, no_defaults))
LoadCall ==
    /\ ~IsNone(call)
    /\ IsNone(outcome)
    /\ \E c \in {Get(call)} :
         outcome' = Some(load_yaml_config(c.cfg, c.no_defaults))
    /\ UNCHANGED <<files, source, registry, reads, reused, runVars, call, metaVars>>

----------------------------------------------------------------------------
(* MetaBase.source and MetaItem.source *)

\* config[self.__name__.lower()]: the default source of the configuration
DefaultSource == "p1"

Exists(path) == path \in DOMAIN files

\* a registry loaded from a source, by the names it defines
Loaded(path) == [path |-> path, names |-> ItemNames(files[path].entries)]

\* MetaBase: @source.setter ; path is None or a path
MetaBase_source_set(path) ==
    LET p == IF IsNone(path) THEN DefaultSource ELSE Get(path)
    IN  IF msource = Some(p)
        THEN UNCHANGED <<msource, mregistry, mloads>>
        ELSE /\ msource' = Some(p)
             /\ mregistry' = NoneV
             /\ mloads' = <<>>

MB_SetSource(path) ==
    /\ Idle
    /\ MetaBase_source_set(path)
    /\ UNCHANGED <<files, source, registry, reads, reused, runVars, evalVars, isource,
                   iregistry, iloads>>

\* MetaBase: @property source
MB_GetSource ==
    /\ Idle
    /\ IF IsNone(msource) THEN MetaBase_source_set(NoneV)
       ELSE UNCHANGED <<msource, mregistry, mloads>>
    /\ UNCHANGED <<files, source, registry, reads, reused, runVars, evalVars, isource,
                   iregistry, iloads>>

\* MetaBase: self(), the lazy initialization of the registry from self.source
MB_Access ==
    /\ Idle
    /\ ~IsNone(msource)
    /\ Exists(Get(msource))
    /\ IF IsNone(mregistry)
       THEN /\ mregistry' = Some(Loaded(Get(msource)))
            /\ mloads' = Append(mloads, Get(msource))
       ELSE UNCHANGED <<mregistry, mloads>>
    /\ UNCHANGED <<files, source, registry, reads, reused, runVars, evalVars, msource,
                   isource, iregistry, iloads>>

\* MetaItem: @source.setter of an item family (Detector, Packer, ...)
MetaItem_source_set(path) ==
    LET p == IF IsNone(path) THEN DefaultSource ELSE Get(path)
        from == IF Exists(p) THEN p ELSE DefaultSource
    IN  IF isource = Some(p)
        THEN UNCHANGED <<isource, iregistry, iloads>>
        ELSE /\ isource' = Some(p)
             /\ iregistry' = Some(Loaded(from))
             /\ iloads' = <<from>>

MI_SetSource(path) ==
    /\ Idle
    /\ MetaItem_source_set(path)
    /\ UNCHANGED <<files, source, registry, reads, reused, runVars, evalVars, msource,
                   mregistry, mloads>>

\* MetaItem: @property source
MI_GetSource ==
    /\ Idle
    /\ IF IsNone(isource) THEN MetaItem_source_set(NoneV)
       ELSE UNCHANGED <<isource, iregistry, iloads>>
    /\ UNCHANGED <<files, source, registry, reads, reused, runVars, evalVars, msource,
                   mregistry, mloads>>

----------------------------------------------------------------------------
(* Inputs *)

Formats == SeqToSet(expand_formats("All"))

Targets == {NoneV} \cup {Some(f) : f \in {"PE32", "ELF64"}}

UsedNames == {Names[i] : i \in 1..MaxItems}

Selections == {NoneV} \cup {Some(l) : l \in SeqsUpTo(UsedNames \cup {"X"}, MaxSelect)}

LoopChoices == {NoneV} \cup {Some(n) : n \in 0..MaxLoop}

ParamChoices ==
    {Params(NoneV, NoneV, StrResult(FALSE)),
     Params(Some(FALSE), NoneV, StrResult(FALSE)),
     Params(NoneV, NoneV, StrResult(TRUE)),
     Params(NoneV, Some(0), StrResult(FALSE)),
     Params(NoneV, NoneV, DictResult({"ELF"}, FALSE))}

EntriesOf(ps) == [i \in 1..Len(ps) |-> [name |-> Names[i], params |-> ps[i]]]

Docs == {[defaults |-> NoDefaults, entries |-> EntriesOf(ps)] :
         ps \in SeqsUpTo(ParamChoices, MaxItems)}

\* a second document: defaults that disable every modifier but the ones saying
\* otherwise, and results given by category
OtherDoc ==
    [defaults |-> Params(Some(FALSE), NoneV, NoResult),
     entries |-> <<[name |-> "B",
                    params |-> Params(Some(TRUE), NoneV,
                                      DictResult({"PE32", "PE", "All"}, FALSE))],
                   [name |-> "D",
                    params |-> Params(NoneV, NoneV, DictResult({"PE"}, FALSE))]>>]

InitRun ==
    /\ pc = "idle"
    /\ exe = NoneV
    /\ select = NoneV
    /\ warn = FALSE
    /\ idx = 1
    /\ parser = PyNone
    /\ applied = <<>>
    /\ invoked = <<>>
    /\ warned = <<>>
    /\ parses = 0
    /\ builds = <<>>
    /\ evals = 0
    /\ err = ""
    /\ select0 = NoneV

InitMeta ==
    /\ msource = NoneV
    /\ mregistry = NoneV
    /\ mloads = <<>>
    /\ isource = NoneV
    /\ iregistry = NoneV
    /\ iloads = <<>>

Init ==
    /\ \E doc \in Docs : files = [p \in Paths |-> IF p = "p1" THEN doc ELSE OtherDoc]
    /\ source = DefaultSource
    /\ registry = NoneV
    /\ reads = <<>>
    /\ reused = FALSE
    /\ InitRun
    /\ call = NoneV
    /\ outcome = NoneV
    /\ InitMeta

Next ==
    \/ \E e \in Targets, sel \in Selections, w \in BOOLEAN : Start(e, sel, w)
    \/ Skip
    \/ Invoke
    \/ Finish
    \/ Return

Spec == Init /\ [][Next]_vars

----------------------------------------------------------------------------
(* Direct calls of dict2.__call__, over every input within the bounds *)

ExprChoices == {Expr("A", "*", bad) : bad \in BOOLEAN}

SelfChoices ==
    {[name |-> "A", result |-> r, islist |-> l, apply |-> TRUE, loop |-> NoneV,
      parameters |-> ps] :
        r \in SeqsUpTo(ExprChoices, MaxExprs), l \in BOOLEAN,
        ps \in {{}, {"n"}}} \ {x \in
    {[name |-> "A", result |-> r, islist |-> FALSE, apply |-> TRUE, loop |-> NoneV,
      parameters |-> ps] :
        r \in SeqsUpTo(ExprChoices, MaxExprs), ps \in {{}, {"n"}}} :
        Len(x.result) # 1}

\* data binds the names of the caller, __builtins__ among them or not
DataChoices == {{"sections"}, {"sections", "__builtins__"}}

Calls(d) ==
    {[self |-> d, multi |-> mu, behs |-> bs, silent |-> si, kwargs |-> kw,
      data |-> {"sections"}, ins |-> [i \in 1..Len(d.result) |-> FALSE]] :
        mu \in BOOLEAN, bs \in [1..Len(d.result) -> Behaviours],
        si \in BOOLEAN, kw \in {{}, {"parser"}}}

InitEval ==
    /\ files = [p \in Paths |-> OtherDoc]
    /\ source = DefaultSource
    /\ registry = NoneV
    /\ reads = <<>>
    /\ reused = FALSE
    /\ InitRun
    /\ \E d \in SelfChoices : call \in {Some(c) : c \in Calls(d)}
    /\ outcome = NoneV
    /\ InitMeta

NextEval == EvalCall

SpecEval == InitEval /\ [][NextEval]_vars

----------------------------------------------------------------------------
(* Direct calls of dict2.__call__ of a class with _multi_expr, over the     *)
(* data and what each evaluation leaves in the context                      *)

CtxCalls(d) ==
    {[self |-> d, multi |-> TRUE, behs |-> bs, silent |-> FALSE,
      kwargs |-> {}, data |-> da, ins |-> ins] :
        bs \in [1..Len(d.result) -> Behaviours], da \in DataChoices,
        ins \in [1..Len(d.result) -> BOOLEAN]}

InitCtx ==
    /\ files = [p \in Paths |-> OtherDoc]
    /\ source = DefaultSource
    /\ registry = NoneV
    /\ reads = <<>>
    /\ reused = FALSE
    /\ InitRun
    /\ \E d \in SelfChoices : call \in {Some(c) : c \in CtxCalls(d)}
    /\ outcome = NoneV
    /\ InitMeta

NextCtx == EvalCall

SpecCtx == InitCtx /\ [][NextCtx]_vars

----------------------------------------------------------------------------
(* Direct calls of Modifier.__call__, over every loop count within the bounds *)

LoopSelfChoices ==
    {[name |-> "A", result |-> <<Expr("A", "*", bad)>>, islist |-> FALSE,
      apply |-> TRUE, loop |-> l, parameters |-> {}] :
        bad \in BOOLEAN, l \in LoopChoices}

\* the parser the caller hands over: none yet, or the object of an earlier item
PinChoices == {PyNone, PyObj(9)}

LoopCalls ==
    UNION {{[self |-> d, behs |-> bs, pin |-> p] :
            bs \in [1..Modifier_rounds(d) -> [1..1 -> Behaviours]],
            p \in PinChoices} : d \in LoopSelfChoices}

InitLoop ==
    /\ files = [p \in Paths |-> OtherDoc]
    /\ source = DefaultSource
    /\ registry = NoneV
    /\ reads = <<>>
    /\ reused = FALSE
    /\ InitRun
    /\ call \in {Some(c) : c \in LoopCalls}
    /\ outcome = NoneV
    /\ InitMeta

NextLoop == LoopCall

SpecLoop == InitLoop /\ [][NextLoop]_vars

----------------------------------------------------------------------------
(* Constructions of a dict2, and builds of the registry from sources whose *)
(* entries may declare no result, or an empty one                          *)

ResultChoices ==
    {[given |-> FALSE, empty |-> FALSE], [given |-> TRUE, empty |-> TRUE],
     [given |-> TRUE, empty |-> FALSE]}

ResDocs ==
    {[defaults |-> NoDefaults, entries |-> EntriesOf(ps)] :
        ps \in SeqsUpTo(ParamChoices \cup {Params(NoneV, NoneV, NoResult),
                                           Params(NoneV, NoneV, EmptyResult)},
                        MaxItems)}

InitRes ==
    /\ files \in {[p \in Paths |-> d] : d \in ResDocs}
    /\ source = DefaultSource
    /\ registry = NoneV
    /\ reads = <<>>
    /\ reused = FALSE
    /\ InitRun
    /\ call \in {Some(c) : c \in ResultChoices}
    /\ outcome = NoneV
    /\ InitMeta

NextRes ==
    \/ InitCall
    \/ \E format \in SeqToSet(FORMAT_KEYS) \cup Formats : NamesCall(format)

SpecRes == InitRes /\ [][NextRes]_vars

----------------------------------------------------------------------------
(* Runs on a source one entry of which is null *)

GoodParams ==
    {Params(NoneV, NoneV, StrResult(FALSE)),
     Params(Some(FALSE), NoneV, StrResult(FALSE))}

\* the entries es with the null entry C put at position k
WithNull(es, k) ==
    SubSeq(es, 1, k - 1) \o <<[name |-> "C"]>> \o SubSeq(es, k, Len(es))

FailDocs ==
    {[defaults |-> NoDefaults, entries |-> WithNull(EntriesOf(ps), k)] :
        ps \in [1..MaxItems -> GoodParams], k \in 1..(MaxItems + 1)}

InitFail ==
    /\ files \in {[p \in Paths |-> d] : d \in FailDocs}
    /\ source = DefaultSource
    /\ registry = NoneV
    /\ reads = <<>>
    /\ reused = FALSE
    /\ InitRun
    /\ call = NoneV
    /\ outcome = NoneV
    /\ InitMeta

NextFail ==
    \/ Next
    \/ \E format \in SeqToSet(FORMAT_KEYS) \cup Formats : NamesCall(format)

SpecFail == InitFail /\ [][NextFail]_vars

----------------------------------------------------------------------------
(* MetaItem.source setter: the classes made from one entry (item, data)    *)
(* A string is the sequence of the pieces that '-' separates in it, so     *)
(* that joining with '-' is concatenation; a value is a record of its type *)
(* and of its pieces (for a list: of its elements).                        *)

MaxAttrs == 2

MaxIter == 2

StrV(toks) == [typ |-> "str", toks |-> toks]

IntV(tok) == [typ |-> "int", toks |-> <<tok>>]

ListV(elems) == [typ |-> "list", toks |-> elems]

\* str(v)
str_(v) == v.toks

\* itertools.product(*iterables): the rightmost iterable advances first
RECURSIVE Product(_)
Product(its) ==
    IF its = <<>> THEN << <<>> >>
    ELSE Only({[n \in 1..(Len(Head(its)) * Len(rest)) |->
                    <<Head(its)[((n - 1) \div Len(rest)) + 1]>>
                    \o rest[((n - 1) % Len(rest)) + 1]] :
               rest \in {Product(Tail(its))}})

\* "-".join(map(str, (item, ) + values))
RECURSIVE Join(_, _)
Join(item, values) ==
    IF values = <<>> THEN item
    ELSE Join(item \o str_(Head(values)), Tail(values))

\* variants.setdefault(vitem, {...}) on an ordered dict of [name, params]
ODSetDefault(od, name, params) ==
    IF \E i \in 1..Len(od) : od[i].name = name THEN od
    ELSE Append(od, [name |-> name, params |-> params])

\* for k, v in ...: variants[vitem].setdefault(k, v), for the pairs of a mapping
FillParams(params, more) ==
    [k \in DOMAIN params \cup DOMAIN more |->
        IF k \in DOMAIN params THEN params[k] ELSE more[k]]

\* zip(attrs, values) as a mapping
ZipAttrs(attrs, values) ==
    [k \in {attrs[i] : i \in 1..Len(attrs)} |->
        values[CHOOSE i \in 1..Len(attrs) :
                   attrs[i] = k /\ \A j \in 1..(i - 1) : attrs[j] # k]]

\* the body of `for values in itertools.product(*iterables)`
TemplateStep(od, item, tpl, values) ==
    Only({[i \in 1..Len(o) |->
              IF o[i].name = Join(item, values)
              THEN [o[i] EXCEPT !.params =
                       FillParams(FillParams(@, ZipAttrs(tpl.attrs, values)),
                                  tpl.fields)]
              ELSE o[i]] :
          o \in {ODSetDefault(od, Join(item, values), tpl.fields)}})

RECURSIVE TemplateLoop(_, _, _, _)
TemplateLoop(od, item, tpl, tuples) ==
    IF tuples = <<>> THEN od
    ELSE Only({TemplateLoop(o, item, tpl, Tail(tuples)) :
               o \in {TemplateStep(od, item, tpl, Head(tuples))}})

\* template = variants.pop('_template', {}) ; if len(template) > 0: ...
\* tpl is [attrs, iterables, fields]: the names of the underscore-prefixed
\* keys, their values, and the other keys of the template
ExpandTemplate(item, variants, tpl) ==
    IF tpl.attrs = <<>> /\ DOMAIN tpl.fields = {} THEN variants
    ELSE TemplateLoop(variants, item, tpl, Product(tpl.iterables))

\* the keys of a base item that are not copied
BaseSkipped == {"steps", "status"}

\* "_" + k if k == "source" else k
AttrName(k) == IF k = "source" THEN "_source" ELSE k

\* the skip as it would be if the steps were copied too
CopyBase_all(attrs, d) ==
    [a \in DOMAIN attrs \cup {AttrName(k) : k \in DOMAIN d} |->
        IF \E k \in DOMAIN d : AttrName(k) = a
        THEN d[CHOOSE k \in DOMAIN d : AttrName(k) = a]
        ELSE attrs[a]]

\* for k, v in _cache[base].get(bcls, {}).items(): ... setattr(i, ..., v)
CopyBase(attrs, d) ==
    [a \in DOMAIN attrs \cup {AttrName(k) : k \in DOMAIN d \ BaseSkipped} |->
        IF \E k \in DOMAIN d \ BaseSkipped : AttrName(k) = a
        THEN d[CHOOSE k \in DOMAIN d \ BaseSkipped : AttrName(k) = a]
        ELSE attrs[a]]

\* the keys whose lists may hold "<from-parent>"
ParentKeys == {"install", "references", "steps"}

\* nv: each "<from-parent>" replaced by the elements of the parent's list
RECURSIVE FromParent(_, _)
FromParent(l, pl) ==
    IF l = <<>> THEN <<>>
    ELSE (IF Head(l) = "<from-parent>" THEN pl ELSE <<Head(l)>>)
         \o FromParent(Tail(l), pl)

\* the attribute _setattr(i, d) sets for the key k
SetAttrName(k) ==
    IF k = "source" THEN "_source" ELSE IF k = "status" THEN "_status" ELSE k

\* _setattr(i, d): attrs are the attributes of i, parent those of
\* glob[i.parent] (NoneV when i has no parent)
setattr_(attrs, d, parent) ==
    [a \in DOMAIN attrs \cup {SetAttrName(k) : k \in DOMAIN d} |->
        IF \E k \in DOMAIN d : SetAttrName(k) = a
        THEN Only({IF ~IsNone(parent) /\ k \in ParentKeys
                   THEN ListV(FromParent(d[k].toks,
                                         IF k \in DOMAIN Get(parent)
                                         THEN Get(parent)[k].toks ELSE <<>>))
                   ELSE d[k] :
                   k \in {CHOOSE k2 \in DOMAIN d : SetAttrName(k2) = a}})
        ELSE attrs[a]]

\* the regular expression on `base`, and what follows a match: base is
\* [kind, family, bcls], kind "none" when data has no string under `base`,
\* "bad" when the string does not match
BaseOutcome(self, item, base, families) ==
    CASE base.kind = "none" -> [err |-> "", attrs |-> EmptyDict]
      [] base.kind = "bad" -> [err |-> "ValueError", attrs |-> EmptyDict]
      [] OTHER ->
         Only({IF base.family = self /\ bcls = item
               THEN [err |-> "ValueError", attrs |-> EmptyDict]
               ELSE [err |-> "",
                     attrs |-> CopyBase(EmptyDict,
                                        IF bcls \in DOMAIN families[base.family]
                                        THEN families[base.family][bcls]
                                        ELSE EmptyDict)] :
               bcls \in {IF IsNone(base.bcls) THEN item ELSE Get(base.bcls)}})

\* glob[i.parent] for a variant of item: the class bound last to the name of
\* the item, which is the variant of that very name when there is one
\* (glob[vitem] = type(vitem, ...)), and the class of the item otherwise
ParentAttrs(item, iattrs, vs) ==
    IF \E j \in 1..Len(vs) : vs[j].name = item
    THEN vs[CHOOSE j \in 1..Len(vs) : vs[j].name = item].attrs
    ELSE iattrs

\* _setattr(vi, ds[j]) for the variant classes j, j + 1, ... in order
RECURSIVE SetVariants(_, _, _, _, _)
SetVariants(vs, j, item, iattrs, ds) ==
    IF j > Len(vs) THEN vs
    ELSE Only({SetVariants(v2, j + 1, item, iattrs, ds) :
               v2 \in {[vs EXCEPT ![j].attrs =
                           setattr_(@, ds[j], Some(ParentAttrs(item, iattrs, vs)))]}})

\* the classes appended to the registry for the variants, in order: created
\* from the family class, set from data, then from the data of each variant
\* (parent is the class of the item, already set from data)
VariantClasses(item, data, variants, parent) ==
    Only({SetVariants(vs, 1, item, parent,
                      [i \in 1..Len(variants) |-> variants[i].params]) :
          vs \in {SetVariants([i \in 1..Len(variants) |->
                                  [name |-> variants[i].name, parent |-> Some(item),
                                   attrs |-> EmptyDict]],
                              1, item, parent,
                              [i \in 1..Len(variants) |-> data])}})

\* the body of `for item, data in load_yaml_config(...)`: entry is
\* [name, base, params, variants, template]; the result is the exception
\* raised, or the instances appended to self.registry
BuildEntry(self, entry, families) ==
    Only({IF b.err # "" THEN [err |-> b.err, classes |-> <<>>]
          ELSE Only({[err |-> "",
                      classes |-> <<[name |-> entry.name, parent |-> NoneV,
                                     attrs |-> i]>>
                                  \o VariantClasses(entry.name, entry.params,
                                        ExpandTemplate(entry.name, entry.variants,
                                                       entry.template), i)] :
                     i \in {setattr_(b.attrs, entry.params, NoneV)}}) :
          b \in {BaseOutcome(self, entry.name, entry.base, families)}})

\* the build of the classes of one entry of the family `self`
BuildCall ==
    /\ ~IsNone(call)
    /\ IsNone(outcome)
    /\ \E c \in {Get(call)} :
         outcome' = Some(BuildEntry(c.self, c.entry, c.families))
    /\ UNCHANGED <<files, source, registry, reads, reused, runVars, call, metaVars>>

----------------------------------------------------------------------------
(* Builds of the classes of one entry T of the family Unpacker *)

NoBase == [kind |-> "none", family |-> "", bcls |-> NoneV]

BadBase == [kind |-> "bad", family |-> "", bcls |-> NoneV]

BaseRef(family, bcls) == [kind |-> "ref", family |-> family, bcls |-> bcls]

NoTemplate == [attrs |-> <<>>, iterables |-> <<>>, fields |-> EmptyDict]

\* the values an iterable of a template may hold
TplValues ==
    {IntV("1"), StrV(<<"1">>), StrV(<<"x">>), StrV(<<"y">>), StrV(<<"x", "y">>),
     StrV(<<"y", "y">>)}

Iterables == SeqsUpTo(TplValues, MaxIter)

AttrLists == {SubSeq(<<"n", "c", "m">>, 1, n) : n \in 0..MaxAttrs}

\* the iterables of the attributes after the first
MoreIterables ==
    {<<>>, <<StrV(<<"y">>)>>, <<StrV(<<"y", "y">>), StrV(<<"y">>)>>}

\* the first attribute takes any iterable, the others one of MoreIterables
Templates ==
    UNION {{[attrs |-> as,
             iterables |-> IF as = <<>> THEN <<>> ELSE <<first>> \o rest,
             fields |-> fs] :
            first \in IF as = <<>> THEN {<<>>} ELSE Iterables,
            rest \in [1..(Len(as) - 1) -> MoreIterables],
            fs \in {EmptyDict, [k \in {"comment"} |-> StrV(<<"tpl">>)]}} :
           as \in AttrLists}

DeclaredVariants ==
    {<<>>, <<[name |-> <<"T", "1">>, params |-> [k \in {"n"} |-> StrV(<<"own">>)]]>>}

NoFamilies == [f \in {"Detector", "Packer", "Unpacker"} |-> EmptyDict]

TplCalls ==
    {[self |-> "Unpacker",
      entry |-> [name |-> <<"T">>, base |-> NoBase, params |-> EmptyDict,
                 variants |-> vs, template |-> tpl],
      families |-> NoFamilies] :
        vs \in DeclaredVariants, tpl \in Templates}

InitTpl ==
    /\ files = [p \in Paths |-> OtherDoc]
    /\ source = DefaultSource
    /\ registry = NoneV
    /\ reads = <<>>
    /\ reused = FALSE
    /\ InitRun
    /\ call \in {Some(c) : c \in TplCalls}
    /\ outcome = NoneV
    /\ InitMeta

NextTpl == BuildCall

SpecTpl == InitTpl /\ [][NextTpl]_vars

\* the keys an entry may hold, and the mappings over some of them whose
\* values tell where they come from
ItemKeys == {"description", "steps", "status", "source"}

ParamsFrom(who) ==
    UNION {{[k \in ks |-> IF k = "steps" THEN ListV(<<who>>) ELSE StrV(<<who>>)]} :
           ks \in SUBSET ItemKeys}

BaseChoices ==
    {NoBase, BadBase,
     BaseRef("Packer", Some(<<"D">>)), BaseRef("Packer", NoneV),
     BaseRef("Unpacker", Some(<<"D">>)), BaseRef("Unpacker", NoneV),
     BaseRef("Unpacker", Some(<<"T">>)), BaseRef("Detector", Some(<<"D">>))}

\* the configurations of the families: D, and in Packer an item named T too
FamiliesWith(d) ==
    [f \in {"Detector", "Packer", "Unpacker"} |->
        IF f = "Detector" THEN EmptyDict
        ELSE IF f = "Packer"
        THEN (<<"D">> :> d) @@ (<<"T">> :> [k \in {"description"} |-> StrV(<<"PT">>)])
        ELSE (<<"D">> :> d)]

BaseCalls ==
    {[self |-> "Unpacker",
      entry |-> [name |-> <<"T">>, base |-> b, params |-> own,
                 variants |-> <<>>, template |-> NoTemplate],
      families |-> FamiliesWith(d)] :
        b \in BaseChoices, own \in ParamsFrom("own"), d \in ParamsFrom("D")}

InitBase ==
    /\ files = [p \in Paths |-> OtherDoc]
    /\ source = DefaultSource
    /\ registry = NoneV
    /\ reads = <<>>
    /\ reused = FALSE
    /\ InitRun
    /\ call \in {Some(c) : c \in BaseCalls}
    /\ outcome = NoneV
    /\ InitMeta

NextBase == BuildCall

SpecBase == InitBase /\ [][NextBase]_vars

----------------------------------------------------------------------------
(* Builds of an entry T with one variant at most, declared or made by a    *)
(* template, whose install and steps lists may hold "<from-parent>"        *)

MaxList == 2

ListsOf(x) == {ListV(l) : l \in SeqsUpTo({x, "<from-parent>"}, MaxList)}

\* the mappings that give install one of the lists ls, or nothing, and steps
\* the list st, or nothing
ListParams(ls, st) ==
    {EmptyDict, [k \in {"steps"} |-> st]}
    \cup UNION {{[k \in {"install"} |-> l],
                 [k \in {"install", "steps"} |-> IF k = "install" THEN l ELSE st]} :
                l \in ls}

ParentVariants ==
    {<<>>} \cup {<<[name |-> n, params |-> ps]>> :
                    n \in {<<"T", "v">>, <<"T">>},
                    ps \in ListParams(ListsOf("b"),
                                      ListV(<<"<from-parent>", "t">>))}

ParentTemplates ==
    {NoTemplate,
     [attrs |-> <<"n">>, iterables |-> << <<StrV(<<"v">>)>> >>,
      fields |-> [k \in {"install"} |-> ListV(<<"<from-parent>", "c">>)]]}

ParentCalls ==
    {[self |-> "Unpacker",
      entry |-> [name |-> <<"T">>, base |-> NoBase, params |-> ps,
                 variants |-> vs, template |-> tpl],
      families |-> NoFamilies] :
        ps \in ListParams(ListsOf("a"), ListV(<<"s">>)),
        vs \in ParentVariants, tpl \in ParentTemplates}

InitParent ==
    /\ files = [p \in Paths |-> OtherDoc]
    /\ source = DefaultSource
    /\ registry = NoneV
    /\ reads = <<>>
    /\ reused = FALSE
    /\ InitRun
    /\ call \in {Some(c) : c \in ParentCalls}
    /\ outcome = NoneV
    /\ InitMeta

NextParent == BuildCall

SpecParent == InitParent /\ [][NextParent]_vars

----------------------------------------------------------------------------
(* Loads of a directory (a file with e1 and e2, a sub-directory with a    *)
(* file holding e3) and of a single file, over the defaults of each level *)

EntryNames == {"e1", "e2", "e3"}

PatternChoices == {{"e1"}, {"e2"}, {"e1", "e3"}}

PatternLists == UNION {[1..n -> PatternChoices] : n \in 1..MaxPatterns}

\* a defaults mapping that gives K the value v
OnlyK(v) == [k \in {"K"} |-> v]

RootDefaults ==
    {EmptyDict, OnlyK(Scalar("root")), OnlyK(DictV({"x"})), OnlyK(BoolV(TRUE)),
     [k \in {"K", "J"} |-> Scalar("root")]}
    \cup {OnlyK(MatchV(ps, TRUE, b, "")) : ps \in PatternLists, b \in BOOLEAN}
    \cup {OnlyK(MatchV(ps, FALSE, FALSE, "pattern")) : ps \in PatternLists}

LevelDefaults(src) == {EmptyDict, OnlyK(Scalar(src))}

\* the parameters of an entry: it defines K itself, or not
OwnChoices == {EmptyDict, OnlyK(Scalar("own"))}

Folders ==
    {[dflt  |-> rd,
      files |-> <<[defaults |-> fd,
                   entries  |-> <<[name |-> "e1", params |-> o1],
                                  [name |-> "e2", params |-> EmptyDict]>>]>>,
      subs  |-> <<[dflt  |-> sd,
                   files |-> <<[defaults |-> EmptyDict,
                                entries  |-> <<[name |-> "e3", params |-> o3]>>]>>,
                   subs  |-> <<>>]>>] :
        rd \in RootDefaults, fd \in LevelDefaults("file"), o1 \in OwnChoices,
        sd \in LevelDefaults("sub"), o3 \in OwnChoices}

LoadInputs ==
    {[cfg |-> [isdir |-> TRUE, folder |-> f, file |-> f.files[1]],
      no_defaults |-> nd] : f \in Folders, nd \in {{}, {"J"}}}
    \cup {[cfg |-> [isdir |-> FALSE, folder |-> f,
                    file |-> [f.files[1] EXCEPT !.defaults = f.dflt]],
           no_defaults |-> {}] :
          f \in {g \in Folders : g.subs[1].dflt = EmptyDict
                                 /\ g.files[1].defaults = EmptyDict
                                 /\ g.subs[1].files[1].entries[1].params = EmptyDict}}

InitLoad ==
    /\ files = [p \in Paths |-> OtherDoc]
    /\ source = DefaultSource
    /\ registry = NoneV
    /\ reads = <<>>
    /\ reused = FALSE
    /\ InitRun
    /\ call \in {Some(c) : c \in LoadInputs}
    /\ outcome = NoneV
    /\ InitMeta

NextLoad == LoadCall

SpecLoad == InitLoad /\ [][NextLoad]_vars

----------------------------------------------------------------------------
(* Loads under forbidden default names: the same tree, where each level may *)
(* give a default to J or to K and each file may hold no entry              *)

JorK(src) == {EmptyDict, OnlyK(Scalar(src)), [k \in {"J"} |-> Scalar(src)]}

ForbidFolders ==
    {[dflt  |-> rd,
      files |-> <<[defaults |-> fd, entries  |-> es1]>>,
      subs  |-> <<[dflt  |-> sd,
                   files |-> <<[defaults |-> EmptyDict, entries  |-> es3]>>,
                   subs  |-> <<>>]>>] :
        rd \in JorK("root"), fd \in JorK("file"), sd \in JorK("sub"),
        es1 \in {<<>>} \cup {<<[name |-> "e1", params |-> o]>> : o \in JorK("own")},
        es3 \in {<<>>, <<[name |-> "e3", params |-> EmptyDict]>>}}

ForbidInputs ==
    {[cfg |-> [isdir |-> d, folder |-> f,
               file |-> IF d THEN f.files[1]
                        ELSE [f.files[1] EXCEPT !.defaults = f.dflt]],
      no_defaults |-> nd] :
        f \in ForbidFolders, nd \in {{}, {"J"}, {"J", "K"}}, d \in BOOLEAN}

InitForbid ==
    /\ files = [p \in Paths |-> OtherDoc]
    /\ source = DefaultSource
    /\ registry = NoneV
    /\ reads = <<>>
    /\ reused = FALSE
    /\ InitRun
    /\ call \in {Some(c) : c \in ForbidInputs}
    /\ outcome = NoneV
    /\ InitMeta

NextForbid == LoadCall

SpecForbid == InitForbid /\ [][NextForbid]_vars

----------------------------------------------------------------------------
(* Direct calls of _merge on a configuration that holds K, or nothing *)

Elems == {Scalar("a"), Scalar("b"), Scalar("c")}

MergeValues ==
    {Scalar("a"), Scalar("b"), BoolV(TRUE), DictV({"x"}), DictV({"y"})}
    \cup {ListLike(t, es) : t \in {"list", "tuple", "set"},
                            es \in SeqsUpTo(Elems, MaxElems)}

MergeInputs ==
    {[config |-> cf, k |-> "K", v |-> v, keep |-> keep] :
        cf \in {EmptyDict} \cup {OnlyK(v1) : v1 \in MergeValues},
        v \in MergeValues, keep \in BOOLEAN}

InitMerge ==
    /\ files = [p \in Paths |-> OtherDoc]
    /\ source = DefaultSource
    /\ registry = NoneV
    /\ reads = <<>>
    /\ reused = FALSE
    /\ InitRun
    /\ call \in {Some(c) : c \in MergeInputs}
    /\ outcome = NoneV
    /\ InitMeta

NextMerge ==
    \/ MergeCall
    \/ MergeAgain

SpecMerge == InitMerge /\ [][NextMerge]_vars

----------------------------------------------------------------------------
(* The registries and their sources *)

DocA ==
    [defaults |-> NoDefaults,
     entries |-> <<[name |-> "A", params |-> Params(NoneV, NoneV, StrResult(FALSE))],
                   [name |-> "B",
                    params |-> Params(NoneV, NoneV, DictResult({"PE"}, FALSE))]>>]

SourceChoices == {NoneV} \cup {Some(p) : p \in Paths \cup {"nowhere"}}

InitSrc ==
    /\ files = [p \in Paths |-> IF p = "p1" THEN DocA ELSE OtherDoc]
    /\ source = DefaultSource
    /\ registry = NoneV
    /\ reads = <<>>
    /\ reused = FALSE
    /\ InitRun
    /\ call = NoneV
    /\ outcome = NoneV
    /\ InitMeta

NextSrc ==
    \/ Next
    \/ \E path \in Paths : SetSource(path)
    \/ \E format \in SeqToSet(FORMAT_KEYS) \cup Formats : NamesCall(format)
    \/ \E path \in SourceChoices : MB_SetSource(path)
    \/ MB_GetSource
    \/ MB_Access
    \/ \E path \in SourceChoices : MI_SetSource(path)
    \/ MI_GetSource

SpecSrc == InitSrc /\ [][NextSrc]_vars

----------------------------------------------------------------------------
(* Properties of the pipeline (specification Spec) *)

InvokedNames == [i \in 1..Len(invoked) |-> invoked[i].name]

\* the name is a key of Modifiers.registry[exe.format]
Registered(n) ==
    /\ Get(exe) \in DOMAIN Get(registry)
    /\ \E k \in 1..Len(Items) : Items[k].name = n

\* the selection rule, on the selection as the caller gave it
Selected(m) ==
    IF IsNone(select0) THEN m.apply ELSE m.name \in SeqToSet(Get(select0))

KnownOf(l) == SelectSeq(l, LAMBDA n : Registered(n))

UnknownOf(l) == SelectSeq(l, LAMBDA n : ~Registered(n))

\* C1: a ForbiddenNodeError raised by a selected item is re-raised out of the
\* pipeline and aborts it at once (no later item is invoked, the run does not
\* complete), and it is the only exception of an item that ends the run.
C1_ForbiddenAborts ==
    /\ \A i \in 1..Len(invoked) :
          invoked[i].exc = "ForbiddenNodeError" =>
              /\ pc = "raised"
              /\ err = "ForbiddenNodeError"
              /\ i = Len(invoked)
    /\ (pc = "raised" /\ invoked # <<>>) =>
          invoked[Len(invoked)].exc = "ForbiddenNodeError"

\* C3: once the run on a present target is over, an item that raised is not in
\* the applied list, every selected item was invoked all the same, and build
\* was called if another item succeeded.
C3_FailureIsolated ==
    (pc = "done" /\ ~IsNone(exe)) =>
        \A i \in 1..Len(invoked) :
            invoked[i].kind = "raise" =>
                /\ invoked[i].name \notin SeqToSet(applied)
                /\ \A k \in 1..Len(Items) :
                      Selected(Items[k]) => Items[k].name \in SeqToSet(InvokedNames)
                /\ (\E j \in 1..Len(invoked) : j # i /\ invoked[j].kind = "return")
                      => Len(builds) = 1

\* C4: build is never called twice nor before the last item has run; once the
\* run on a present target is over, it was called exactly once if an item was
\* applied and not at all otherwise.
C4_BuildOnceIffApplied ==
    /\ Len(builds) <= 1
    /\ (pc = "loop" => builds = <<>>)
    /\ (pc = "done" /\ ~IsNone(exe)) =>
          IF applied # <<>> THEN Len(builds) = 1 ELSE builds = <<>>

\* C5: an item registered for the format of the target has been invoked, once
\* the loop has passed it, if and only if a selection was given and holds its
\* name, or no selection was given and its apply flag is true; and nothing but
\* such items is invoked.
C5_SelectionRule ==
    (pc \in {"loop", "done"} /\ ~IsNone(exe)) =>
        /\ \A k \in 1..Len(Items) :
              k < idx =>
                  (Items[k].name \in SeqToSet(InvokedNames) <=> Selected(Items[k]))
        /\ \A i \in 1..Len(invoked) :
              \E k \in 1..Len(Items) : k < idx /\ Items[k].name = invoked[i].name

\* a finished run under a selection, in which an item with apply false was
\* invoked and an item with apply true was not
C5_Witness ==
    /\ pc = "done"
    /\ ~IsNone(exe)
    /\ ~IsNone(select0)
    /\ \E k \in 1..Len(Items) :
          ~Items[k].apply /\ Items[k].name \in SeqToSet(InvokedNames)
    /\ \E k \in 1..Len(Items) :
          Items[k].apply /\ Items[k].name \notin SeqToSet(InvokedNames)

\* C6: with warn false, a selection holding a name that is not registered for
\* the format of the target makes the call raise before the target is parsed,
\* before any item is invoked and without build; the applied list stays empty.
C6_UnknownSelectionFails ==
    (/\ pc # "idle"
     /\ ~warn
     /\ ~IsNone(exe)
     /\ ~IsNone(select0)
     /\ \E i \in 1..Len(Get(select0)) : ~Registered(Get(select0)[i])) =>
        /\ pc = "raised"
        /\ err = IF Get(exe) \in DOMAIN Get(registry) THEN "ValueError" ELSE "KeyError"
        /\ parses = 0
        /\ invoked = <<>>
        /\ builds = <<>>
        /\ applied = <<>>

\* the call raised on the selection [A, X], where A is registered and X is not
C6_Witness ==
    /\ pc = "raised"
    /\ err = "ValueError"
    /\ ~warn
    /\ select0 = Some(<<"A", "X">>)
    /\ Registered("A")
    /\ ~Registered("X")

ParserAfter(n) ==
    IF \A j \in 1..n : invoked[j].kind # "return" THEN PyNone
    ELSE invoked[CHOOSE j \in 1..n :
                     /\ invoked[j].kind = "return"
                     /\ \A k \in (j + 1)..n : invoked[k].kind # "return"].val

C20_ParseAtMostOnce ==
    parses = IF invoked = <<>> THEN 0 ELSE 1

\* the position of a name in Modifiers.registry[exe.format]
PosOf(n) == CHOOSE k \in 1..Len(Items) : Items[k].name = n

\* C30: at every point of a run, the applied list follows the order of the
\* registry of the target's format without repeating a name, and each of its
\* names is that of an item the loop has passed, that satisfied the selection
\* rule and whose invocation returned without raising.
C30_AppliedSubsequence ==
    applied # <<>> =>
        /\ pc \in {"loop", "done", "raised"}
        /\ ~IsNone(exe)
        /\ \A i \in 1..Len(applied) :
              /\ Registered(applied[i])
              /\ PosOf(applied[i]) < idx
              /\ Selected(Items[PosOf(applied[i])])
              /\ \E j \in 1..Len(invoked) :
                    invoked[j].name = applied[i] /\ invoked[j].kind = "return"
              /\ \A j \in 1..Len(invoked) :
                    invoked[j].name = applied[i] => invoked[j].kind = "return"
        /\ \A i, j \in 1..Len(applied) :
              i < j => PosOf(applied[i]) < PosOf(applied[j])

\* a finished run of two selected items, the first of which raised: the
\* second alone is in the list
C30_Witness ==
    /\ pc = "done"
    /\ ~IsNone(exe)
    /\ Len(invoked) = 2
    /\ invoked[1].kind = "raise"
    /\ invoked[2].kind = "return"
    /\ applied = <<invoked[2].name>>

\* C21: a run on an absent target (exe is None) is a no-op, with or without
\* a selection: no exception, no parse, no item invoked, no build, and an
\* empty applied list.
C21_AbsentTargetNoOp ==
    (pc # "idle" /\ IsNone(exe)) =>
        /\ err = ""
        /\ pc = "done"
        /\ invoked = <<>>
        /\ parses = 0
        /\ builds = <<>>
        /\ applied = <<>>

----------------------------------------------------------------------------
(* Properties of dict2.__call__ (specifications SpecEval, SpecCtx) *)

\* C2: whenever an expression holding a disallowed node is evaluated, the call
\* raises ForbiddenNodeError and returns no value, whatever silent and whether
\* keyword parameters are given or not.
C2_ForbiddenAlwaysRaised ==
    ~IsNone(outcome) =>
        \A i \in 1..Get(outcome).evald :
            Get(call).self.result[i].forbidden =>
                /\ Get(outcome).kind = "raise"
                /\ Get(outcome).exc = "ForbiddenNodeError"
                /\ Get(outcome).retv = SubSeq(Get(outcome).retv, 1, i - 1)

\* a silent call with keyword parameters that evaluated a forbidden expression
C2_Witness ==
    /\ ~IsNone(outcome)
    /\ Get(call).silent
    /\ Get(call).kwargs # {}
    /\ Get(outcome).evald = 1
    /\ Get(call).self.result[1].forbidden
    /\ Get(outcome).exc = "ForbiddenNodeError"

\* C28: each time an expression is evaluated, the second and later ones of a
\* chained result included, the context handed to the evaluator binds no
\* __builtins__, even when data bound one or an earlier evaluation left one.
C28_NoBuiltins ==
    ~IsNone(outcome) =>
        /\ Len(Get(outcome).ctxs) = Get(outcome).evald
        /\ \A i \in 1..Len(Get(outcome).ctxs) :
              /\ "__builtins__" \notin Get(outcome).ctxs[i]
              /\ Get(outcome).ctxs[i] \cup {"__builtins__"} =
                     BaseContext \cup Get(call).data \cup {"__builtins__"}

\* a chained result of two expressions, both evaluated, on data that binds
\* __builtins__ and with a first evaluation that leaves a binding behind
C28_Witness ==
    /\ ~IsNone(outcome)
    /\ "__builtins__" \in Get(call).data
    /\ Len(Get(call).self.result) = 2
    /\ Get(call).ins[1]
    /\ Get(outcome).evald = 2
    /\ Len(Get(outcome).ctxs) = 2

\* what the call would do with the other value of silent
OtherSilent ==
    dict2_call(Get(call).self, Get(call).multi, Get(call).behs, ~Get(call).silent,
               Get(call).kwargs, 0)

\* C29: silent changes only what is logged: the call with the other value of
\* silent raises the same exception or returns the same value; and when the
\* call of a result with the keyword parameters raises, the call raises.
C29_SilentOnlyLogs ==
    ~IsNone(outcome) =>
        /\ OtherSilent.kind = Get(outcome).kind
        /\ OtherSilent.exc = Get(outcome).exc
        /\ OtherSilent.val = Get(outcome).val
        /\ \A i \in 1..Get(outcome).evald :
              (/\ Get(call).kwargs \cup Get(call).self.parameters # {}
               /\ ~Get(call).self.result[i].forbidden
               /\ Get(call).behs[i] = "CallRaises") =>
                  Get(outcome).kind = "raise"

\* the expressions of the call all evaluate, and what they evaluate to is
\* callable or not
Evaluates(c, i) ==
    /\ ~c.self.result[i].forbidden
    /\ c.behs[i] \notin {"NameError", "Error"}

IsCallable(c, i) == c.behs[i] \in {"CallRaises", "CallReturnsNone", "CallReturns"}

\* the value of the i-th expression as evaluated, before any call of it
RawValue(c, i) == IF IsCallable(c, i) THEN PyFunc ELSE PyRaw

\* the value the i-th expression contributes when every keyword parameter of
\* the call reaches a callable that returns
CallValue(c, i) ==
    IF c.behs[i] = "CallReturns" THEN PyObj(i - 1) ELSE PyNone

\* C15: for a definition with one expression that evaluates, the result is
\* called only when the caller gives keyword parameters of its own and the
\* result is callable; otherwise the value is returned as evaluated, without
\* error.
C15_CallOnlyIfExtraAndCallable ==
    (/\ ~IsNone(outcome)
     /\ ~Get(call).self.islist
     /\ Evaluates(Get(call), 1)) =>
        IF Get(call).kwargs # {} /\ IsCallable(Get(call), 1)
        THEN Get(call).behs[1] # "CallRaises" =>
                 /\ Get(outcome).kind = "return"
                 /\ Get(outcome).val = CallValue(Get(call), 1)
        ELSE /\ Get(outcome).kind = "return"
             /\ Get(outcome).val = RawValue(Get(call), 1)

\* C16: for a list of expressions that all evaluate, without keyword
\* parameters, the call returns the per-expression results in list order, as a
\* tuple when there are several and bare when there is one (as first stated:
\* for every class of definitions).
C16_ListResult_AnyClass ==
    (/\ ~IsNone(outcome)
     /\ Get(call).self.islist
     /\ Get(call).kwargs \cup Get(call).self.parameters = {}
     /\ \A i \in 1..Len(Get(call).self.result) : Evaluates(Get(call), i)) =>
        /\ Get(outcome).kind = "return"
        /\ Get(outcome).retv = [i \in 1..Len(Get(call).self.result) |->
                                    RawValue(Get(call), i)]
        /\ Get(outcome).val = IF Len(Get(outcome).retv) = 1
                              THEN Get(outcome).retv[1] ELSE PyTuple

\* C16 (amended): the same when the class of the definition enables lists of
\* expressions (_multi_expr); when it does not, the call raises ValueError
\* before any expression is evaluated. An expression that raises ends the
\* call, the later ones are not evaluated.
C16_ListResult ==
    (~IsNone(outcome) /\ Get(call).self.islist) =>
        IF ~Get(call).multi
        THEN /\ Get(outcome).kind = "raise"
             /\ Get(outcome).exc = "ValueError"
             /\ Get(outcome).evald = 0
        ELSE /\ (Get(call).kwargs \cup Get(call).self.parameters = {}
                 /\ \A i \in 1..Len(Get(call).self.result) : Evaluates(Get(call), i)) =>
                    /\ Get(outcome).kind = "return"
                    /\ Get(outcome).evald = Len(Get(call).self.result)
                    /\ Get(outcome).retv = [i \in 1..Len(Get(call).self.result) |->
                                                RawValue(Get(call), i)]
                    /\ Get(outcome).val = IF Len(Get(outcome).retv) = 1
                                          THEN Get(outcome).retv[1] ELSE PyTuple
             /\ \A i \in 1..Len(Get(call).self.result) :
                    (/\ ~Evaluates(Get(call), i)
                     /\ \A j \in 1..(i - 1) : Evaluates(Get(call), j)
                     /\ Get(call).kwargs \cup Get(call).self.parameters = {}) =>
                        /\ Get(outcome).kind = "raise"
                        /\ Get(outcome).evald = i
                        /\ Get(outcome).retv = [j \in 1..(i - 1) |->
                                                    RawValue(Get(call), j)]

\* a call on a list of two expressions with different values, in a class that
\* enables lists, that returned the tuple
C16_Witness ==
    /\ ~IsNone(outcome)
    /\ Get(call).self.islist
    /\ Get(call).multi
    /\ Len(Get(call).self.result) = 2
    /\ Get(outcome).kind = "return"
    /\ Get(outcome).retv = <<PyRaw, PyFunc>>
    /\ Get(outcome).val = PyTuple


----------------------------------------------------------------------------
(* Properties of load_yaml_config (specification SpecLoad) *)

\* the defaults mappings that enclose an entry of the source loaded, the
\* nearest first: those of its file, then the defaults.yml of each directory
\* from that of the file up to the root
Enclosing(name) ==
    IF ~Get(call).cfg.isdir THEN <<Get(call).cfg.file.defaults>>
    ELSE IF name = "e3"
    THEN <<Get(call).cfg.folder.subs[1].files[1].defaults,
           Get(call).cfg.folder.subs[1].dflt,
           Get(call).cfg.folder.dflt>>
    ELSE <<Get(call).cfg.folder.files[1].defaults, Get(call).cfg.folder.dflt>>

\* the value of k in the nearest enclosing defaults that define it
Nearest(name, k) ==
    IF \A i \in 1..Len(Enclosing(name)) : k \notin DOMAIN Enclosing(name)[i]
    THEN NoneV
    ELSE Some(Enclosing(name)[CHOOSE i \in 1..Len(Enclosing(name)) :
                                 /\ k \in DOMAIN Enclosing(name)[i]
                                 /\ \A j \in 1..(i - 1) :
                                       k \notin DOMAIN Enclosing(name)[j]][k])

\* the parameters an entry defines itself in the source loaded
OwnParams(name) ==
    IF name = "e3" THEN Get(call).cfg.folder.subs[1].files[1].entries[1].params
    ELSE IF name = "e1" THEN Get(call).cfg.file.entries[1].params
    ELSE Get(call).cfg.file.entries[2].params

\* C11: in the pairs the load of a directory yields, an entry that defines K keeps its value,
\* and an entry that does not has the value K has in the nearest enclosing
\* defaults, whatever the type of that value (patterns, which C12 states,
\* set aside).
C11_NearestDefault ==
    (~IsNone(outcome) /\ Get(outcome).err = "" /\ Get(call).cfg.isdir) =>
        \A i \in 1..Len(Get(outcome).entries) :
            \A k \in SeqToSet(CfgKeys) :
                IF k \in DOMAIN OwnParams(Get(outcome).entries[i].name)
                THEN /\ k \in DOMAIN Get(outcome).entries[i].params
                     /\ Get(outcome).entries[i].params[k] =
                            OwnParams(Get(outcome).entries[i].name)[k]
                ELSE (/\ ~IsNone(Nearest(Get(outcome).entries[i].name, k))
                      /\ Get(Nearest(Get(outcome).entries[i].name, k)).t # "match") =>
                         /\ k \in DOMAIN Get(outcome).entries[i].params
                         /\ Get(outcome).entries[i].params[k] =
                                Get(Nearest(Get(outcome).entries[i].name, k))

\* C12: when the nearest default of K is a pattern default with a boolean
\* value v, an entry that does not define K gets v if its name matches one
\* of the patterns at least, and not v if it matches none.
C12_PatternDefault ==
    (~IsNone(outcome) /\ Get(outcome).err = "") =>
        \A i \in 1..Len(Get(outcome).entries) :
            (/\ "K" \notin DOMAIN OwnParams(Get(outcome).entries[i].name)
             /\ ~IsNone(Nearest(Get(outcome).entries[i].name, "K"))
             /\ Get(Nearest(Get(outcome).entries[i].name, "K")).t = "match"
             /\ Get(Nearest(Get(outcome).entries[i].name, "K")).isbool) =>
                /\ "K" \in DOMAIN Get(outcome).entries[i].params
                /\ Get(outcome).entries[i].params["K"] =
                       BoolV(IF \E j \in 1..Len(Get(Nearest(Get(outcome).entries[i].name,
                                                            "K")).match) :
                                    Get(outcome).entries[i].name \in
                                        Get(Nearest(Get(outcome).entries[i].name,
                                                    "K")).match[j]
                             THEN Get(Nearest(Get(outcome).entries[i].name, "K")).b
                             ELSE ~Get(Nearest(Get(outcome).entries[i].name, "K")).b)

\* the names of the entries of the source loaded
SourceNames ==
    {Get(call).cfg.file.entries[i].name : i \in 1..Len(Get(call).cfg.file.entries)}
    \cup (IF Get(call).cfg.isdir
          THEN {Get(call).cfg.folder.subs[1].files[1].entries[i].name :
                  i \in 1..Len(Get(call).cfg.folder.subs[1].files[1].entries)}
          ELSE {})

\* a defaults mapping that applies to an entry gives a default to a name of
\* no_defaults
ForbiddenSupplied ==
    \E name \in SourceNames :
        \E i \in 1..Len(Enclosing(name)) :
            DOMAIN Enclosing(name)[i] \cap Get(call).no_defaults # {}

\* C24: when a defaults mapping that applies to an entry of the source (the
\* defaults.yml of a directory above it, or the defaults of its file) gives a
\* default to a forbidden name, the load raises ValueError and yields no
\* pair; otherwise it does not raise.
C24_ForbiddenDefault ==
    ~IsNone(outcome) =>
        IF ForbiddenSupplied
        THEN Get(outcome).err = "ValueError" /\ Get(outcome).entries = <<>>
        ELSE Get(outcome).err = ""

\* a load of a directory in which only the defaults.yml of the root gives a
\* default to the forbidden J, and the only entry lies in the sub-directory
C24_Witness ==
    /\ ~IsNone(outcome)
    /\ Get(call).cfg.isdir
    /\ Get(call).no_defaults = {"J"}
    /\ "J" \in DOMAIN Get(call).cfg.folder.dflt
    /\ Get(call).cfg.folder.files[1].entries = <<>>
    /\ Get(call).cfg.folder.subs[1].dflt = EmptyDict
    /\ SourceNames = {"e3"}
    /\ Get(outcome).err = "ValueError"
    /\ Get(outcome).entries = <<>>

----------------------------------------------------------------------------
(* Properties of _merge (specification SpecMerge) *)

\* the value K held before the first call, and the incoming value
Existing == Get(call).config["K"]

Incoming == Get(call).v

\* the elements of l that are not in l1, each once, in the order of l
RECURSIVE NewOf(_, _)
NewOf(l, l1) ==
    IF l = <<>> THEN <<>>
    ELSE IF Head(l) \in SeqToSet(l1) THEN NewOf(Tail(l), l1)
    ELSE <<Head(l)>> \o NewOf(Tail(l), Append(l1, Head(l)))

\* C22: when the existing and the incoming value of a key are both list-like,
\* the merge leaves the existing elements in their order, followed by the
\* incoming elements that were not present, in incoming order, each once, and
\* merging the same incoming value once more changes nothing.
C22_ListUnion ==
    (/\ ~IsNone(outcome)
     /\ "K" \in DOMAIN Get(call).config
     /\ IsListLike(Existing)
     /\ IsListLike(Incoming)) =>
        /\ Get(outcome).err = ""
        /\ Get(outcome).n = 1 =>
              Get(outcome).config["K"].elems =
                  Existing.elems \o NewOf(Incoming.elems, Existing.elems)
        /\ Get(outcome).n = 2 => Get(outcome).config = Get(outcome).prev

\* C23: when the existing and the incoming value of a key are neither both
\* mappings nor both list-like, the incoming value replaces the existing one,
\* unless keep is set, in which case the existing value is left unchanged.
C23_ReplaceUnlessKeep ==
    (/\ ~IsNone(outcome)
     /\ Get(outcome).n = 1
     /\ "K" \in DOMAIN Get(call).config
     /\ ~(IsDict(Existing) /\ IsDict(Incoming))
     /\ ~(IsListLike(Existing) /\ IsListLike(Incoming))) =>
        /\ Get(outcome).err = ""
        /\ Get(outcome).config["K"] =
               IF Get(call).keep THEN Existing ELSE Incoming

----------------------------------------------------------------------------
(* Properties of the classes built from an entry (SpecTpl, SpecBase) *)

\* L1 * ... * Ln
RECURSIVE LenProduct(_)
LenProduct(its) ==
    IF its = <<>> THEN 1 ELSE Len(Head(its)) * LenProduct(Tail(its))

\* the names of the variant classes built, in order
VariantNames ==
    [i \in 1..(Len(Get(outcome).classes) - 1) |-> Get(outcome).classes[i + 1].name]

\* C13: for a template with n >= 1 underscore-prefixed attributes bound to
\* iterables of lengths L1..Ln, and no variant declared besides, L1*...*Ln
\* variants are built, one per tuple of the product, each named by joining
\* the name of the item and the values of the tuple with '-', and their names
\* are pairwise distinct.
C13_TemplateProduct ==
    (/\ ~IsNone(outcome)
     /\ Get(outcome).err = ""
     /\ Get(call).entry.template.attrs # <<>>
     /\ Get(call).entry.variants = <<>>) =>
        /\ Len(VariantNames) = LenProduct(Get(call).entry.template.iterables)
        /\ \A i, j \in 1..Len(VariantNames) :
              i # j => VariantNames[i] # VariantNames[j]
        /\ \A i \in 1..Len(VariantNames) :
              VariantNames[i] =
                  Join(Get(call).entry.name,
                       Product(Get(call).entry.template.iterables)[i])

\* the variants of the entry with their data, the template applied
Declared ==
    ExpandTemplate(Get(call).entry.name, Get(call).entry.variants,
                   Get(call).entry.template)

\* the list the j-th variant declares under k: its own, or that of the item
DeclaredList(j, k) ==
    IF k \in DOMAIN Declared[j].params THEN Declared[j].params[k].toks
    ELSE Get(call).entry.params[k].toks

\* the list the class of the item holds under k
ParentList(k) ==
    IF k \in DOMAIN Get(outcome).classes[1].attrs
    THEN Get(outcome).classes[1].attrs[k].toks ELSE <<>>

\* l with each "<from-parent>" replaced by the elements of pl
RECURSIVE Splice(_, _)
Splice(l, pl) ==
    IF l = <<>> THEN <<>>
    ELSE IF Head(l) = "<from-parent>" THEN pl \o Splice(Tail(l), pl)
    ELSE <<Head(l)>> \o Splice(Tail(l), pl)

\* C25: in the install, references and steps lists of every variant built,
\* each "<from-parent>" is replaced in place by the elements of the list of
\* the parent, in the order of the parent, the other elements keeping their
\* places, and no such list of a variant holds "<from-parent>" any more
\* (stated for the variants whose name is not that of the item, which C27
\* is about).
C25_FromParent ==
    (/\ ~IsNone(outcome)
     /\ Get(outcome).err = ""
     /\ \A j \in 1..Len(Declared) : Declared[j].name # Get(call).entry.name) =>
        \A j \in 1..(Len(Get(outcome).classes) - 1) :
            \A k \in ParentKeys \cap DOMAIN Get(outcome).classes[j + 1].attrs :
                /\ Get(outcome).classes[j + 1].attrs[k].toks =
                       Splice(DeclaredList(j, k), ParentList(k))
                /\ \A n \in 1..Len(Get(outcome).classes[j + 1].attrs[k].toks) :
                       Get(outcome).classes[j + 1].attrs[k].toks[n] # "<from-parent>"

\* C27: after a build, no two entries of the registry of a family have the
\* same name, also when the name of a variant, declared or made by the
\* template, is the name of its own base item.
C27_UniqueNames ==
    (~IsNone(outcome) /\ Get(outcome).err = "") =>
        \A i, j \in 1..Len(Get(outcome).classes) :
            i # j => Get(outcome).classes[i].name # Get(outcome).classes[j].name

\* the item the base of the entry designates, and its configuration
BaseItem ==
    IF IsNone(Get(call).entry.base.bcls) THEN Get(call).entry.name
    ELSE Get(Get(call).entry.base.bcls)

BaseData ==
    IF BaseItem \in DOMAIN Get(call).families[Get(call).entry.base.family]
    THEN Get(call).families[Get(call).entry.base.family][BaseItem]
    ELSE EmptyDict

\* the attribute that holds the field k of a class (source and status are
\* kept under _source and _status, which the properties of the class read)
FieldAttr(k) ==
    IF k = "source" THEN "_source" ELSE IF k = "status" THEN "_status" ELSE k

\* C14: when the entry declares a base in another item (Detector, Packer or
\* Unpacker family), the class built has every field of the base item but
\* steps and status, with the value of the base item unless the parameters
\* of the entry define the field, whose value then wins; steps and status
\* are on the class only if the entry defines them. A base that designates
\* the entry itself, or that is not of the form Family[Item], is an error.
C14_BaseCopied ==
    (~IsNone(outcome) /\ Get(call).entry.base.kind # "none") =>
        IF \/ Get(call).entry.base.kind = "bad"
           \/ (Get(call).entry.base.family = Get(call).self
               /\ BaseItem = Get(call).entry.name)
        THEN Get(outcome).err = "ValueError"
        ELSE /\ Get(outcome).err = ""
             /\ \A k \in DOMAIN BaseData \cup DOMAIN Get(call).entry.params :
                   IF k \in DOMAIN Get(call).entry.params
                   THEN /\ FieldAttr(k) \in DOMAIN Get(outcome).classes[1].attrs
                        /\ Get(outcome).classes[1].attrs[FieldAttr(k)] =
                               Get(call).entry.params[k]
                   ELSE IF k \in {"steps", "status"}
                   THEN FieldAttr(k) \notin DOMAIN Get(outcome).classes[1].attrs
                   ELSE /\ FieldAttr(k) \in DOMAIN Get(outcome).classes[1].attrs
                        /\ Get(outcome).classes[1].attrs[FieldAttr(k)] = BaseData[k]

\* a class built on Packer[D] that took the description of D, kept its own
\* source and has none of the steps and status of D
C14_Witness ==
    /\ ~IsNone(outcome)
    /\ Get(outcome).err = ""
    /\ Get(call).entry.base = BaseRef("Packer", Some(<<"D">>))
    /\ DOMAIN BaseData = ItemKeys
    /\ DOMAIN Get(call).entry.params = {"source"}
    /\ Get(outcome).classes[1].attrs =
           [a \in {"description", "_source"} |->
               IF a = "description" THEN StrV(<<"D">>) ELSE StrV(<<"own">>)]

----------------------------------------------------------------------------
(* Properties of Modifier.__call__ (specification SpecLoop) *)

\* the loop count of the definition called, 1 when it has none
LoopCount == IF IsNone(Get(call).self.loop) THEN 1 ELSE Get(Get(call).self.loop)

\* C17: a call with loop count N (1 without a loop count) evaluates N times
\* when every evaluation returns, the first with the parser of the caller and
\* each next one with the value the previous one returned, and returns the
\* value of the last; an evaluation that raises ends the call.
C17_LoopThreadsParser ==
    ~IsNone(outcome) =>
        /\ Len(Get(outcome).calls) <= LoopCount
        /\ \A i \in 1..Len(Get(outcome).calls) :
              /\ Get(outcome).calls[i].pin =
                     IF i = 1 THEN Get(call).pin ELSE Get(outcome).calls[i - 1].val
              /\ i < Len(Get(outcome).calls) => Get(outcome).calls[i].kind = "return"
        /\ Get(outcome).kind = "return" =>
              /\ Len(Get(outcome).calls) = LoopCount
              /\ LoopCount > 0 =>
                     /\ Get(outcome).calls[LoopCount].kind = "return"
                     /\ Get(outcome).val = Get(outcome).calls[LoopCount].val
        /\ Get(outcome).kind = "raise" =>
              Get(outcome).calls[Len(Get(outcome).calls)].kind = "raise"

\* a call with loop count 2 whose second evaluation received the object the
\* first one returned, not the parser of the caller
C17_Witness ==
    /\ ~IsNone(outcome)
    /\ Get(call).self.loop = Some(2)
    /\ Get(outcome).kind = "return"
    /\ Len(Get(outcome).calls) = 2
    /\ Get(outcome).calls[1].val # Get(call).pin
    /\ Get(outcome).calls[2].pin = Get(outcome).calls[1].val
    /\ Get(outcome).val = Get(outcome).calls[2].val

----------------------------------------------------------------------------
(* Properties of the registries (specification SpecSrc) *)

\* the class of formats a format belongs to
FormatClass(f) ==
    CHOOSE c \in SeqToSet(Tail(FORMAT_KEYS)) : f \in SeqToSet(FORMATS[c])

\* the most specific of the keys ks that covers the format f
MostSpecific(ks, f) ==
    IF f \in ks THEN f ELSE IF FormatClass(f) \in ks THEN FormatClass(f) ELSE "All"

\* the result mapping the document declares for an entry
DeclaredResult(doc, name) ==
    SetDefaults((CHOOSE e \in SeqToSet(doc.entries) : e.name = name).params,
                doc.defaults).result

\* C8: when a result mapping declares expressions under several keys covering
\* a format, the definition registered under that format is the one built
\* from the most specific key (format, then class of formats, then All).
C8_MostSpecificWins ==
    ~IsNone(registry) =>
        \A f \in DOMAIN Get(registry) :
            \A k \in 1..Len(Get(registry)[f]) :
                DeclaredResult(files[reads[1]], Get(registry)[f][k].name).kind = "dict"
                => Get(registry)[f][k].result[1].key =
                       MostSpecific(DeclaredResult(files[reads[1]],
                                                   Get(registry)[f][k].name).keys, f)

\* C26: a dict2 whose result is not given, or is empty, cannot be
\* constructed (the construction raises), and a registry is not built from a
\* source one entry of which declares no result or an empty one.
C26_ResultRequired ==
    /\ (~IsNone(outcome) /\ (~Get(call).given \/ Get(call).empty)) =>
           Get(outcome).err # ""
    /\ ~IsNone(registry) =>
           \A i \in 1..Len(files[reads[1]].entries) :
               SetDefaults(files[reads[1]].entries[i].params,
                           files[reads[1]].defaults).result.kind
                   \notin {"absent", "empty"}

\* C18: when the construction of the registry has failed part-way, a later
\* access does not find a registry at all, or finds a complete one: it never
\* works on the entries registered before the failure.
C18_NoPartialRegistry ==
    (reused /\ ~IsNone(registry)) => BuildError(files[reads[1]]) = ""

\* C9: whatever the accesses, the source is opened and the registry built once,
\* by the first access, and the registry stays the one built then; the same
\* holds of a MetaBase class and of a MetaItem family while their source path
\* is not changed.
C9_BuiltOnce ==
    /\ Len(reads) <= 1
    /\ (IsNone(registry) <=> reads = <<>>)
    /\ (pc # "idle" \/ reused) => reads # <<>>
    /\ reads # <<>> => registry = Some(BuildRegistry(files[reads[1]]))
    /\ Len(mloads) <= 1
    /\ (IsNone(mregistry) <=> mloads = <<>>)
    /\ mloads # <<>> => (mloads = <<Get(msource)>>
                         /\ mregistry = Some(Loaded(mloads[1])))
    /\ Len(iloads) <= 1
    /\ (IsNone(isource) <=> iloads = <<>>)
    /\ iloads # <<>> => iregistry = Some(Loaded(iloads[1]))

\* a run in progress on a registry that an earlier call had built
C9_Witness ==
    /\ reused
    /\ pc = "loop"
    /\ reads = <<source>>
    /\ ~IsNone(mregistry)
    /\ ~IsNone(iregistry)

\* C10: once the source path has been changed, every later access observes a
\* registry built from the new source, for Modifiers, a MetaBase class and a
\* MetaItem family.
C10_SourceChange ==
    /\ pc # "idle" => registry = Some(BuildRegistry(files[source]))
    /\ ~IsNone(mregistry) => Get(mregistry) = Loaded(Get(msource))
    /\ (~IsNone(isource) /\ Exists(Get(isource))) =>
          iregistry = Some(Loaded(Get(isource)))

====
